---- MODULE Spec2Model ----
(***************************************************************************)
(* A model of the accumux accumulator library: the scalar accumulators     *)
(* (basic.hpp, welford.hpp / kbn_sum.hpp), the composition combinators     *)
(* (composition.hpp), the thread-safe wrappers (thread_safe.hpp) and the   *)
(* windowed accumulators (distributed.hpp).                                *)
(*                                                                         *)
(* Values of the floating-point type T are modelled as exact rationals     *)
(* <<n, d>> in lowest terms with d > 0; the model therefore describes the  *)
(* library in exact arithmetic.                                            *)
(***************************************************************************)
EXTENDS Integers, Sequences, FiniteSets, TLC

VARIABLES
    kind,       \* algebra: name of the accumulator type under test
    whole,      \* algebra: accumulator that receives every value
    grp,        \* algebra: <<g1, g2>>, accumulators that receive one group each
    fed,        \* algebra: history of <<value, group>> inputs
    out,        \* algebra: results of the merge step (NoOut before it)
    cond,       \* conditional: the conditional_composition object
    condFed,    \* conditional: history of the values fed to it
    sw,         \* sliding windows: the two sliding_window_accumulator objects
    swPushed,   \* sliding windows: history of the values pushed into each
    swOps,      \* sliding windows: number of calls made so far
    tw,         \* time windows: the two windowed_accumulator objects
    now,        \* time windows: the reading of std::chrono::steady_clock
    twLast,     \* time windows: the last call made (window, time, result)
                \* and the number of calls made so far
    wrap,       \* threads: the wrapper type, "mutex", "rw" or "sharded"
    inst,       \* threads: per wrapper object, the accumulators it owns
                \* (accumulator_, or shards_[i]->accumulator)
    lock,       \* threads: per mutex, its exclusive owner and shared owners
    hash,       \* threads: std::hash of each thread's id
    th,         \* threads: per thread, the calls left to make and the
                \* position inside the current call
    mr,         \* map-reduce: one map_reduce_accumulator::process call
    hm,         \* hierarchical merge: one hierarchical_merge::merge call
    ctor,       \* construction: the last constructor call and its outcome
    hist,       \* histograms: the two histogram_accumulator objects and
                \* the outcome of the last call
    fp,         \* double precision: a kbn_sum<double>, a plain double sum
                \* and the values added to both
    ser,        \* serialization: an accumulator, its bytes and the
                \* accumulator read back from them
    sz,         \* sizes: two accumulators of one type and the size() of
                \* each before the last merge
    cm,         \* conditional merge: two conditional_composition objects
                \* and their states before the last merge
    hq,         \* histogram quantile: the last quantile(p) call and result
    rd          \* sliding window reads: the last eval() or accumulator()
                \* call and what it returned

algVars  == <<kind, whole, grp, fed, out>>
condVars == <<cond, condFed>>
swVars   == <<sw, swPushed, swOps>>
twVars   == <<tw, now, twLast>>
thVars   == <<wrap, inst, lock, hash, th>>
extVars  == <<mr, hm, ctor, hist, fp>>
moreVars == <<ser, sz, cm, hq, rd>>
vars == <<kind, whole, grp, fed, out, cond, condFed, sw, swPushed, swOps,
          tw, now, twLast, wrap, inst, lock, hash, th, mr, hm, ctor, hist, fp,
          ser, sz, cm, hq, rd>>

notAlgVars  == <<condVars, swVars, twVars, thVars, extVars, moreVars>>
notCondVars == <<algVars, swVars, twVars, thVars, extVars, moreVars>>
notSwVars   == <<algVars, condVars, twVars, thVars, extVars, moreVars>>
notTwVars   == <<algVars, condVars, swVars, thVars, extVars, moreVars>>
notThVars   == <<algVars, condVars, swVars, twVars, extVars, moreVars>>
oldVars     == <<algVars, condVars, swVars, twVars, thVars>>
notMrVars   == <<oldVars, hm, ctor, hist, fp, moreVars>>
notHmVars   == <<oldVars, mr, ctor, hist, fp, moreVars>>
notCtorVars == <<oldVars, mr, hm, hist, fp, moreVars>>
notHistVars == <<oldVars, mr, hm, ctor, fp, moreVars>>
notFpVars   == <<oldVars, mr, hm, ctor, hist, moreVars>>
notSerVars  == <<oldVars, extVars, sz, cm, hq, rd>>
notSzVars   == <<oldVars, extVars, ser, cm, hq, rd>>
notCmVars   == <<oldVars, extVars, ser, sz, hq, rd>>
notHqVars   == <<oldVars, extVars, ser, sz, cm, rd>>
notRdVars   == <<algVars, condVars, twVars, thVars, extVars, ser, sz, cm, hq>>

(***************************************************************************)
(* Exact rational arithmetic for the value type T.                         *)
(***************************************************************************)
Abs(i) == IF i < 0 THEN -i ELSE i

RECURSIVE Gcd(_, _)
Gcd(a, b) == IF b = 0 THEN a ELSE Gcd(b, a % b)

Norm(n, d) ==
    LET s == IF d < 0 THEN -1 ELSE 1
        g == Gcd(Abs(n), Abs(d))
    IN  <<(s * n) \div g, (s * d) \div g>>

FromInt(i) == <<i, 1>>
Zero == FromInt(0)
One  == FromInt(1)

RAdd(x, y) == Norm(x[1] * y[2] + y[1] * x[2], x[2] * y[2])
RSub(x, y) == Norm(x[1] * y[2] - y[1] * x[2], x[2] * y[2])
RMul(x, y) == Norm(x[1] * y[1], x[2] * y[2])
RDiv(x, y) == Norm(x[1] * y[2], x[2] * y[1])
RAbs(x)    == <<Abs(x[1]), x[2]>>
RLt(x, y)  == x[1] * y[2] < y[1] * x[2]
RGe(x, y)  == ~RLt(x, y)
RMin(x, y) == IF RLt(y, x) THEN y ELSE x
RMax(x, y) == IF RLt(x, y) THEN y ELSE x

\* std::numeric_limits<T>::max() and ::lowest(): values above and below every
\* value of the model, written with denominator 0 so that RLt orders them.
NumericMax    == <<1, 0>>
NumericLowest == <<-1, 0>>

(***************************************************************************)
(* kbn_sum<T>                                                              *)
(***************************************************************************)
KbnNew == [k |-> "kbn", sum_ |-> Zero, correction_ |-> Zero]

KbnEval(s) == RAdd(s.sum_, s.correction_)

KbnAdd(s, value) ==
    LET corrected_next_term == RAdd(value, s.correction_)
        new_sum == RAdd(s.sum_, corrected_next_term)
    IN  [s EXCEPT
            !.correction_ =
                IF RGe(RAbs(s.sum_), RAbs(corrected_next_term))
                THEN RAdd(RSub(s.sum_, new_sum), corrected_next_term)
                ELSE RAdd(RSub(corrected_next_term, new_sum), s.sum_),
            !.sum_ = new_sum]

KbnMerge(s, other) == KbnAdd(s, KbnEval(other))

\* kbn_sum::operator=(const T&)
KbnAssign(value) == [k |-> "kbn", sum_ |-> value, correction_ |-> Zero]

(***************************************************************************)
(* welford_accumulator<T>                                                  *)
(***************************************************************************)
WelfordNew == [k |-> "welford", count_ |-> 0, mean_ |-> KbnNew, m2_ |-> KbnNew]

WelfordAdd(w, value) ==
    LET count  == w.count_ + 1
        delta  == RSub(value, KbnEval(w.mean_))
        mean   == KbnAdd(w.mean_, RDiv(delta, FromInt(count)))
        delta2 == RSub(value, KbnEval(mean))
    IN  [w EXCEPT !.count_ = count,
                  !.mean_  = mean,
                  !.m2_    = KbnAdd(w.m2_, RMul(delta, delta2))]

WelfordMergeNoCross(w, other) ==
    IF other.count_ = 0 THEN w
    ELSE IF w.count_ = 0 THEN other
    ELSE LET new_count == w.count_ + other.count_
         IN  [w EXCEPT
                !.mean_ = KbnAssign(RDiv(
                              RAdd(RMul(FromInt(w.count_), KbnEval(w.mean_)),
                                   RMul(FromInt(other.count_), KbnEval(other.mean_))),
                              FromInt(new_count))),
                !.m2_ = KbnMerge(w.m2_, other.m2_),
                !.count_ = new_count]

WelfordMerge(w, other) ==
    IF other.count_ = 0 THEN w
    ELSE IF w.count_ = 0 THEN other
    ELSE LET new_count == w.count_ + other.count_
             delta == RSub(KbnEval(other.mean_), KbnEval(w.mean_))
             cross == RDiv(RMul(RMul(RMul(delta, delta), FromInt(w.count_)),
                                FromInt(other.count_)),
                           FromInt(new_count))
         IN  [w EXCEPT
                !.mean_ = KbnAssign(RDiv(
                              RAdd(RMul(FromInt(w.count_), KbnEval(w.mean_)),
                                   RMul(FromInt(other.count_), KbnEval(other.mean_))),
                              FromInt(new_count))),
                !.m2_ = KbnMerge(w.m2_, KbnAdd(other.m2_, cross)),
                !.count_ = new_count]

WelfordMean(w)         == IF w.count_ > 0 THEN KbnEval(w.mean_) ELSE Zero
WelfordSumOfSquares(w) == KbnEval(w.m2_)
WelfordSize(w)         == w.count_

\* variance(): population variance; sample_variance(): divide by n - 1
WelfordVarianceUnbiased(w) ==
    IF w.count_ > 1 THEN RDiv(KbnEval(w.m2_), FromInt(w.count_ - 1)) ELSE Zero

WelfordVariance(w) ==
    IF w.count_ > 0 THEN RDiv(KbnEval(w.m2_), FromInt(w.count_)) ELSE Zero

WelfordSampleVariance(w) ==
    IF w.count_ > 1 THEN RDiv(KbnEval(w.m2_), FromInt(w.count_ - 1)) ELSE Zero

(***************************************************************************)
(* min_accumulator, max_accumulator, count_accumulator,                    *)
(* product_accumulator, minmax_accumulator                                 *)
(***************************************************************************)
MinNew == [k |-> "min", min_value_ |-> NumericMax, has_value_ |-> FALSE]

MinAdd(m, value) ==
    IF ~m.has_value_ \/ RLt(value, m.min_value_)
    THEN [m EXCEPT !.min_value_ = value, !.has_value_ = TRUE]
    ELSE m

MinMergeKeep(m, other) == m

MinMerge(m, other) ==
    IF other.has_value_ THEN MinAdd(m, other.min_value_) ELSE m

MinEval(m) == IF m.has_value_ THEN m.min_value_ ELSE NumericMax

MaxNew == [k |-> "max", max_value_ |-> NumericLowest, has_value_ |-> FALSE]

MaxAdd(m, value) ==
    IF ~m.has_value_ \/ RLt(m.max_value_, value)
    THEN [m EXCEPT !.max_value_ = value, !.has_value_ = TRUE]
    ELSE m

MaxMerge(m, other) ==
    IF other.has_value_ THEN MaxAdd(m, other.max_value_) ELSE m

MaxEval(m) == IF m.has_value_ THEN m.max_value_ ELSE NumericLowest

CountNew == [k |-> "count", count_ |-> 0]
CountAdd(c, value)   == [c EXCEPT !.count_ = @ + 1]
CountMerge(c, other) == [c EXCEPT !.count_ = @ + other.count_]
\* std::size_t, embedded in the model's numbers
CountEval(c) == FromInt(c.count_)

\* log_product_ holds a sum of logarithms; the model stores exp(log_product_),
\* so that adding log|v| is multiplying by |v| and T(0) is One.
ProductNew ==
    [k |-> "product", log_product_ |-> One, has_value_ |-> FALSE, has_zero_ |-> FALSE]

ProductAdd(p, value) ==
    IF value = Zero
    THEN [p EXCEPT !.has_zero_ = TRUE]
    ELSE [p EXCEPT !.log_product_ = RMul(@, RAbs(value)), !.has_value_ = TRUE]

ProductMerge(p, other) ==
    LET z == IF other.has_zero_ THEN [p EXCEPT !.has_zero_ = TRUE] ELSE p
    IN  IF other.has_value_
        THEN [z EXCEPT !.log_product_ = RMul(@, other.log_product_),
                       !.has_value_ = TRUE]
        ELSE z

ProductEval(p) ==
    IF p.has_zero_ THEN Zero
    ELSE IF ~p.has_value_ THEN One
    ELSE p.log_product_

MinMaxNew ==
    [k |-> "minmax", min_value_ |-> NumericMax, max_value_ |-> NumericLowest,
     has_value_ |-> FALSE]

MinMaxAdd(m, value) ==
    IF ~m.has_value_
    THEN [m EXCEPT !.min_value_ = value, !.max_value_ = value, !.has_value_ = TRUE]
    ELSE [m EXCEPT !.min_value_ = RMin(m.min_value_, value),
                   !.max_value_ = RMax(m.max_value_, value)]

MinMaxMerge(m, other) ==
    IF other.has_value_
    THEN MinMaxAdd(MinMaxAdd(m, other.min_value_), other.max_value_)
    ELSE m

MinMaxEval(m) ==
    IF m.has_value_ THEN <<m.min_value_, m.max_value_>>
    ELSE <<NumericMax, NumericLowest>>

(***************************************************************************)
(* parallel_composition and sequential_composition, and the dispatch of    *)
(* operator+=(value), operator+=(other), eval() and the default            *)
(* constructor on the accumulator's type.                                  *)
(***************************************************************************)
ParallelComposition(a, b) ==
    [k |-> "par", accumulator_a_ |-> a, accumulator_b_ |-> b]
SequentialComposition(a, b) ==
    [k |-> "seq", accumulator_a_ |-> a, accumulator_b_ |-> b]

\* variadic_parallel_composition<Accums...>: accumulators_[i] is
\* std::get<i - 1>(accumulators_)
VariadicComposition(accs) == [k |-> "variadic", accumulators_ |-> accs]

(***************************************************************************)
(* reservoir_quantile_accumulator<T>.  The draws of rng_ are inputs: one   *)
(* number per value added, read only when the reservoir is full.           *)
(***************************************************************************)
DefaultMaxSize == 10000

ReservoirNew(max_size) ==
    [k |-> "reservoir", reservoir_ |-> <<>>, max_size_ |-> max_size, count_ |-> 0]

\* operator+=(const T&); draws[i] is the value of dist(rng_)
ReservoirAdd(r, value, draws, i) ==
    IF Len(r.reservoir_) < r.max_size_
    THEN [r EXCEPT !.count_ = @ + 1, !.reservoir_ = Append(@, value)]
    ELSE LET j == draws[i] % (r.count_ + 1)
         IN  [r EXCEPT !.count_ = @ + 1,
                       !.reservoir_ =
                           IF j < r.max_size_
                           THEN [@ EXCEPT ![j + 1] = value] ELSE @]

\* operator+=(const reservoir_quantile_accumulator&): *this += val for
\* every val of other.reservoir_, from position i on
RECURSIVE ReservoirMergeFrom(_, _, _, _)
ReservoirMergeFrom(r, other, draws, i) ==
    IF i > Len(other.reservoir_) THEN r
    ELSE ReservoirMergeFrom(ReservoirAdd(r, other.reservoir_[i], draws, i),
                            other, draws, i + 1)

ReservoirMerge(r, other, draws) == ReservoirMergeFrom(r, other, draws, 1)

\* std::sort
RECURSIVE Insert(_, _)
Insert(sorted, x) ==
    IF sorted = <<>> THEN <<x>>
    ELSE IF RLt(x, Head(sorted)) THEN <<x>> \o sorted
    ELSE <<Head(sorted)>> \o Insert(Tail(sorted), x)

RECURSIVE Sort(_)
Sort(vs) == IF vs = <<>> THEN <<>> ELSE Insert(Sort(Tail(vs)), Head(vs))

\* static_cast<std::size_t>(idx) of a non-negative idx
Floor(x) == x[1] \div x[2]

\* quantile(p)
ReservoirQuantile(r, p) ==
    LET sorted == Sort(r.reservoir_)
        n   == Len(sorted)
        idx == RMul(p, FromInt(n - 1))
        lo  == Floor(idx)
        hi  == IF lo + 1 < n - 1 THEN lo + 1 ELSE n - 1
        frac == RSub(idx, FromInt(lo))
    IN  IF n = 0 THEN Zero
        ELSE IF ~RLt(Zero, p) THEN sorted[1]
        ELSE IF ~RLt(p, One) THEN sorted[n]
        ELSE RAdd(RMul(sorted[lo + 1], RSub(One, frac)),
                  RMul(sorted[hi + 1], frac))

\* eval(): the median
ReservoirEval(r) == ReservoirQuantile(r, Norm(1, 2))

RECURSIVE Eval(_)
Eval(r) ==
    CASE r.k = "kbn"     -> KbnEval(r)
      [] r.k = "welford" -> WelfordMean(r)
      [] r.k = "min"     -> MinEval(r)
      [] r.k = "max"     -> MaxEval(r)
      [] r.k = "count"   -> CountEval(r)
      [] r.k = "product" -> ProductEval(r)
      [] r.k = "minmax"  -> MinMaxEval(r)
      [] r.k = "par"     -> <<Eval(r.accumulator_a_), Eval(r.accumulator_b_)>>
      [] r.k = "seq"     -> Eval(r.accumulator_b_)
      [] r.k = "reservoir" -> ReservoirEval(r)
      [] r.k = "variadic" ->
            [i \in 1..Len(r.accumulators_) |-> Eval(r.accumulators_[i])]

RECURSIVE Update(_, _)
ParAddFirstOnly(r, value) ==
    [r EXCEPT !.accumulator_a_ = Update(r.accumulator_a_, value)]

ParAdd(r, value) ==
    [r EXCEPT !.accumulator_a_ = Update(r.accumulator_a_, value),
              !.accumulator_b_ = Update(r.accumulator_b_, value)]

SeqAddRaw(r, value) ==
    [r EXCEPT !.accumulator_a_ = Update(r.accumulator_a_, value),
              !.accumulator_b_ = Update(r.accumulator_b_, value)]

SeqAdd(r, value) ==
    LET a == Update(r.accumulator_a_, value)
    IN  [r EXCEPT !.accumulator_a_ = a,
                  !.accumulator_b_ = Update(r.accumulator_b_, Eval(a))]

\* variadic_parallel_composition::operator+=(const T&)
VariadicAddSkipLast(r, value) ==
    [r EXCEPT !.accumulators_ =
        [i \in 1..Len(@) |-> IF i < Len(@) THEN Update(@[i], value) ELSE @[i]]]

VariadicAdd(r, value) ==
    [r EXCEPT !.accumulators_ = [i \in 1..Len(@) |-> Update(@[i], value)]]

Update(r, value) ==
    CASE r.k = "kbn"     -> KbnAdd(r, value)
      [] r.k = "welford" -> WelfordAdd(r, value)
      [] r.k = "min"     -> MinAdd(r, value)
      [] r.k = "max"     -> MaxAdd(r, value)
      [] r.k = "count"   -> CountAdd(r, value)
      [] r.k = "product" -> ProductAdd(r, value)
      [] r.k = "minmax"  -> MinMaxAdd(r, value)
      [] r.k = "par"     -> ParAdd(r, value)
      [] r.k = "seq"     -> SeqAdd(r, value)
      [] r.k = "variadic" -> VariadicAdd(r, value)

RECURSIVE Merge(_, _)
Merge(r, other) ==
    CASE r.k = "kbn"     -> KbnMerge(r, other)
      [] r.k = "welford" -> WelfordMerge(r, other)
      [] r.k = "min"     -> MinMerge(r, other)
      [] r.k = "max"     -> MaxMerge(r, other)
      [] r.k = "count"   -> CountMerge(r, other)
      [] r.k = "product" -> ProductMerge(r, other)
      [] r.k = "minmax"  -> MinMaxMerge(r, other)
      [] r.k = "reservoir" -> ReservoirMerge(r, other, <<>>)
      [] r.k \in {"par", "seq"} ->
            [r EXCEPT
               !.accumulator_a_ = Merge(r.accumulator_a_, other.accumulator_a_),
               !.accumulator_b_ = Merge(r.accumulator_b_, other.accumulator_b_)]
      [] r.k = "variadic" ->
            [r EXCEPT !.accumulators_ =
                [i \in 1..Len(@) |-> Merge(@[i], other.accumulators_[i])]]

RECURSIVE Identity(_)
Identity(r) ==
    CASE r.k = "kbn"     -> KbnNew
      [] r.k = "welford" -> WelfordNew
      [] r.k = "min"     -> MinNew
      [] r.k = "max"     -> MaxNew
      [] r.k = "count"   -> CountNew
      [] r.k = "product" -> ProductNew
      [] r.k = "minmax"  -> MinMaxNew
      [] r.k \in {"par", "seq"} ->
            [r EXCEPT !.accumulator_a_ = Identity(r.accumulator_a_),
                      !.accumulator_b_ = Identity(r.accumulator_b_)]
      [] r.k = "variadic" ->
            [r EXCEPT !.accumulators_ = [i \in 1..Len(@) |-> Identity(@[i])]]

(***************************************************************************)
(* Bounds of the model.                                                    *)
(***************************************************************************)
MaxFeed == 3         \* values fed to the accumulators of the algebra machine

\* The values of T fed to the accumulators.
Values == {FromInt(-1), Zero, One, FromInt(2), FromInt(3)}

(***************************************************************************)
(* The algebra machine: one accumulator type is chosen; every value is fed *)
(* to `whole` and to one of the two group accumulators; the merge step     *)
(* then runs g1 += g2, identity += whole and whole += identity.            *)
(***************************************************************************)
Kinds ==
    {"count", "min", "max", "minmax", "kbn", "product", "welford",
     "par_kbn_welford", "par_min_max", "seq_kbn_max", "seq_count_max"}

New(kd) ==
    CASE kd = "count"   -> CountNew
      [] kd = "min"     -> MinNew
      [] kd = "max"     -> MaxNew
      [] kd = "minmax"  -> MinMaxNew
      [] kd = "kbn"     -> KbnNew
      [] kd = "product" -> ProductNew
      [] kd = "welford" -> WelfordNew
      [] kd = "reservoir" -> ReservoirNew(DefaultMaxSize)
      [] kd = "par_kbn_welford" -> ParallelComposition(KbnNew, WelfordNew)
      [] kd = "par_min_max"     -> ParallelComposition(MinNew, MaxNew)
      [] kd = "seq_kbn_max"     -> SequentialComposition(KbnNew, MaxNew)
      [] kd = "seq_count_max"   -> SequentialComposition(CountNew, MaxNew)

NoOut == [done |-> FALSE]

CondIdle == cond = "none" /\ condFed = <<>>
SwIdle   == sw = "none" /\ swPushed = "none" /\ swOps = 0
TwIdle   == tw = "none" /\ now = 0 /\ twLast = "none"
NoRead == [op |-> "none", reads |-> 0]
MoreIdle ==
    ser = "none" /\ sz = "none" /\ cm = "none" /\ hq = "none" /\ rd = NoRead
ExtIdle  ==
    /\ mr = "none" /\ hm = "none" /\ ctor = "none" /\ hist = "none" /\ fp = "none"
    /\ MoreIdle
ThIdle   ==
    wrap = "none" /\ inst = "none" /\ lock = "none" /\ hash = "none" /\ th = "none"

InitAlg ==
    /\ kind \in Kinds
    /\ whole = New(kind)
    /\ grp = <<New(kind), New(kind)>>
    /\ fed = <<>>
    /\ out = NoOut
    /\ CondIdle /\ SwIdle /\ TwIdle /\ ThIdle /\ ExtIdle

\* acc += value on `whole` and on the accumulator of group g
Feed(v, g) ==
    /\ ~out.done
    /\ Len(fed) < MaxFeed
    /\ whole' = Update(whole, v)
    /\ grp' = [grp EXCEPT ![g] = Update(@, v)]
    /\ fed' = Append(fed, <<v, g>>)
    /\ UNCHANGED <<kind, out>>
    /\ UNCHANGED notAlgVars

\* g1 += g2; identity += whole; whole += identity (the last two on copies)
Combine ==
    /\ ~out.done
    /\ grp' = [grp EXCEPT ![1] = Merge(grp[1], grp[2])]
    /\ out' = [done  |-> TRUE,
               left  |-> Merge(Identity(whole), whole),
               right |-> Merge(whole, Identity(whole))]
    /\ UNCHANGED <<kind, whole, fed>>
    /\ UNCHANGED notAlgVars

NextAlg ==
    \/ \E v \in Values, g \in {1, 2} : Feed(v, g)
    \/ Combine

SpecAlg == InitAlg /\ [][NextAlg]_vars

(***************************************************************************)
(* Properties of the algebra machine.                                      *)
(***************************************************************************)
FedValues == [i \in 1..Len(fed) |-> fed[i][1]]

\* the values that went to group g, in the order they were fed
GroupValues(g) ==
    LET sel == SelectSeq(fed, LAMBDA e : e[2] = g)
    IN  [i \in 1..Len(sel) |-> sel[i][1]]

\* group 1 received a prefix of the stream and group 2 the remaining suffix
IsChunked == \A i, j \in 1..Len(fed) : i < j => fed[i][2] <= fed[j][2]

RECURSIVE Fold(_, _)
Fold(r, vs) == IF vs = <<>> THEN r ELSE Fold(Update(r, Head(vs)), Tail(vs))

RECURSIVE PartialSum(_, _)
PartialSum(vs, i) == IF i = 0 THEN Zero ELSE RAdd(PartialSum(vs, i - 1), vs[i])

MaxOfPartialSums(vs) ==
    CHOOSE m \in {PartialSum(vs, i) : i \in 1..Len(vs)} :
        \A i \in 1..Len(vs) : RGe(m, PartialSum(vs, i))

\* what a query of the accumulator returns: count, mean and M2 for
\* welford_accumulator, eval() for the others
Stats(r) ==
    IF r.k = "welford"
    THEN <<WelfordSize(r), WelfordMean(r), WelfordSumOfSquares(r)>>
    ELSE Eval(r)

SplitKinds == {"count", "min", "max", "minmax", "kbn", "welford"}
ParKinds   == {"par_kbn_welford", "par_min_max"}
SeqKinds   == {"seq_kbn_max", "seq_count_max"}

\* C1: for count, min, max, min-max, sum and mean/variance, folding the whole
\* sequence gives the same result (for mean/variance the same count, mean and
\* M2) as folding each of two groups separately and merging the two.
C1_FoldEqualsMergeOfGroups ==
    (out.done /\ kind \in SplitKinds) => Stats(grp[1]) = Stats(whole)

C1_Witness ==
    /\ out.done
    /\ kind = "welford"
    /\ Len(GroupValues(1)) >= 1
    /\ Len(GroupValues(2)) >= 2
    /\ WelfordSumOfSquares(whole) # Zero
    /\ Stats(grp[1]) = Stats(whole)

\* C2: merging a freshly constructed accumulator into r, and r into a freshly
\* constructed accumulator, both give a state with the same result as r, for
\* every scalar type and for the parallel and sequential compositions, r empty
\* or not.
C2_IdentityIsNeutral ==
    out.done => /\ Eval(out.left) = Eval(whole)
                /\ Eval(out.right) = Eval(whole)

C2_Witness ==
    /\ out.done
    /\ kind = "par_kbn_welford"
    /\ Len(fed) >= 2
    /\ Eval(whole) # Eval(Identity(whole))
    /\ Eval(out.left) = Eval(whole)
    /\ Eval(out.right) = Eval(whole)

\* C5: a sequential composition A*B updates A with the datum and then B with
\* A's cumulative result: kbn_sum * max yields the maximum of the partial sums
\* (6 over 1, 2, 3) and count * max yields the number of updates.
C5_SequentialFeedsCumulativeResult ==
    /\ (kind = "seq_kbn_max" /\ fed # <<>>) =>
          /\ Eval(whole.accumulator_a_) = PartialSum(FedValues, Len(fed))
          /\ Eval(whole) = MaxOfPartialSums(FedValues)
    /\ (kind = "seq_count_max" /\ fed # <<>>) =>
          Eval(whole) = FromInt(Len(fed))

C5_Witness ==
    /\ kind = "seq_kbn_max"
    /\ FedValues = <<One, FromInt(2), FromInt(3)>>
    /\ Eval(whole) = FromInt(6)

\* C7: a parallel composition fed two chunks one after the other has the same
\* pair of child results as the merge of two parallel compositions fed one
\* chunk each; update gives each datum to both children and merge merges the
\* children pairwise.
C7_ParallelMergeOfChunks ==
    (out.done /\ kind \in ParKinds /\ IsChunked) =>
        LET a0 == Identity(whole.accumulator_a_)
            b0 == Identity(whole.accumulator_b_)
        IN  /\ Eval(grp[1]) = Eval(whole)
            /\ Eval(whole) = <<Eval(Fold(a0, FedValues)), Eval(Fold(b0, FedValues))>>
            /\ Eval(grp[1]) =
                  <<Eval(Merge(Fold(a0, GroupValues(1)), Fold(a0, GroupValues(2)))),
                    Eval(Merge(Fold(b0, GroupValues(1)), Fold(b0, GroupValues(2))))>>

C7_Witness ==
    /\ out.done
    /\ kind = "par_min_max"
    /\ IsChunked
    /\ Len(GroupValues(1)) >= 1
    /\ Len(GroupValues(2)) >= 1
    /\ Eval(grp[1]) = <<FromInt(-1), FromInt(3)>>
    /\ Eval(whole) = <<FromInt(-1), FromInt(3)>>

\* C8: for a sequential composition, folding a prefix and the remaining suffix
\* into two compositions and merging them gives the same result as folding the
\* whole sequence into one.
C8_SequentialMergeReplays ==
    (out.done /\ kind \in SeqKinds /\ IsChunked) => Eval(grp[1]) = Eval(whole)

(***************************************************************************)
(* conditional_composition<AccumA, AccumB, Predicate>: the std::variant    *)
(* active_accumulator_ is its index (0: AccumA, 1: AccumB) and the         *)
(* accumulator it holds; a0 and b0 are AccumA{} and AccumB{}.              *)
(***************************************************************************)
MaxCondFeed == 6     \* values fed to the conditional composition

CondValues ==
    {Norm(1, 2), One, Norm(3, 2), FromInt(2), FromInt(4), FromInt(5)}

\* the predicate of the tests: [](double value) { return value < 3.0; }
Predicate(value) == RLt(value, FromInt(3))

\* conditional(a, b, pred): the variant is constructed from a
Conditional(a, b) ==
    [k |-> "cond", index |-> 0, active_accumulator_ |-> a,
     a0 |-> Identity(a), b0 |-> Identity(b)]

CondAddCarry(c, value) ==
    [c EXCEPT !.index = IF Predicate(value) THEN 0 ELSE 1,
              !.active_accumulator_ = Update(@, value)]

CondAdd(c, value) ==
    IF Predicate(value)
    THEN LET s == IF c.index = 1
                  THEN [c EXCEPT !.index = 0, !.active_accumulator_ = c.a0]
                  ELSE c
         IN  [s EXCEPT !.active_accumulator_ = Update(@, value)]
    ELSE LET s == IF c.index = 0
                  THEN [c EXCEPT !.index = 1, !.active_accumulator_ = c.b0]
                  ELSE c
         IN  [s EXCEPT !.active_accumulator_ = Update(@, value)]

CondEval(c) == Eval(c.active_accumulator_)

\* the branch types of the conditional compositions of the model
CondTypes == {<<MinNew, MaxNew>>, <<KbnNew, KbnNew>>}

AlgIdle ==
    /\ kind = "none"
    /\ whole = "none"
    /\ grp = "none"
    /\ fed = <<>>
    /\ out = NoOut

InitCond ==
    /\ \E t \in CondTypes : cond = Conditional(t[1], t[2])
    /\ condFed = <<>>
    /\ AlgIdle /\ SwIdle /\ TwIdle /\ ThIdle /\ ExtIdle

\* comp += value
CondFeed(v) ==
    /\ Len(condFed) < MaxCondFeed
    /\ cond' = CondAdd(cond, v)
    /\ condFed' = Append(condFed, v)
    /\ UNCHANGED notCondVars

NextCond == \E v \in CondValues : CondFeed(v)

SpecCond == InitCond /\ [][NextCond]_vars

\* the longest suffix of vs whose values all select the branch of the last one
RECURSIVE TrailingRun(_)
TrailingRun(vs) ==
    IF Len(vs) <= 1 THEN vs
    ELSE LET rest == TrailingRun(Tail(vs))
         IN  IF Len(rest) = Len(vs) - 1 /\ Predicate(Head(vs)) = Predicate(Head(rest))
             THEN vs
             ELSE rest

\* C6: a conditional composition applies each datum to branch A when the
\* predicate holds and to branch B otherwise, restarting the selected branch
\* from identity when it was not the active one; its result is the active
\* branch's fold over the longest trailing run of data that selected it.
C6_ConditionalKeepsTrailingRun ==
    condFed # <<>> =>
        LET last == condFed[Len(condFed)]
            branch == IF Predicate(last) THEN cond.a0 ELSE cond.b0
        IN  /\ cond.index = (IF Predicate(last) THEN 0 ELSE 1)
            /\ cond.active_accumulator_.k = branch.k
            /\ CondEval(cond) = Eval(Fold(branch, TrailingRun(condFed)))

C6_Witness ==
    /\ condFed = <<One, FromInt(2), FromInt(4), FromInt(5), Norm(3, 2), Norm(1, 2)>>
    /\ cond.a0 = MinNew
    /\ cond.index = 0
    /\ CondEval(cond) = Norm(1, 2)

(***************************************************************************)
(* sliding_window_accumulator<kbn_sum<double>>: two windows, updated,      *)
(* merged into each other and read.                                        *)
(***************************************************************************)
MaxWindow == 3       \* largest window_size_ of a sliding window
MaxSwOps  == 4       \* calls made on the sliding windows

SwValues == {One, FromInt(2)}

\* sliding_window_accumulator(window_size); window_size = 0 throws
SlidingNew(window_size) ==
    [window_size_ |-> window_size, values_ |-> <<>>,
     cached_acc_ |-> KbnNew, cache_valid_ |-> FALSE]

SlidingAddDropNewest(w, value) ==
    [w EXCEPT !.values_ = IF Len(@) >= w.window_size_ THEN @ ELSE Append(@, value),
              !.cache_valid_ = FALSE]

SlidingAddKeepCache(w, value) ==
    LET pushed == Append(w.values_, value)
    IN  [w EXCEPT !.values_ = IF Len(pushed) > w.window_size_
                              THEN Tail(pushed)
                              ELSE pushed]

SlidingAdd(w, value) ==
    LET pushed == Append(w.values_, value)
    IN  [w EXCEPT !.values_ = IF Len(pushed) > w.window_size_
                              THEN Tail(pushed)
                              ELSE pushed,
                  !.cache_valid_ = FALSE]

\* for (const auto& v : other.values_) *this += v;
RECURSIVE SlidingAddAll(_, _)
SlidingAddAll(w, vs) ==
    IF vs = <<>> THEN w ELSE SlidingAddAll(SlidingAdd(w, Head(vs)), Tail(vs))

SlidingMerge(w, other) == SlidingAddAll(w, other.values_)

SlidingRebuildCache(w) ==
    [w EXCEPT !.cached_acc_ = Fold(KbnNew, w.values_), !.cache_valid_ = TRUE]

InitSw ==
    /\ sw \in [{1, 2} -> {SlidingNew(n) : n \in 1..MaxWindow}]
    /\ swPushed = [i \in {1, 2} |-> <<>>]
    /\ swOps = 0
    /\ AlgIdle /\ CondIdle /\ TwIdle /\ ThIdle /\ ExtIdle

\* window += value
SwUpdate(i, v) ==
    /\ swOps < MaxSwOps
    /\ sw' = [sw EXCEPT ![i] = SlidingAdd(@, v)]
    /\ swPushed' = [swPushed EXCEPT ![i] = Append(@, v)]
    /\ swOps' = swOps + 1
    /\ UNCHANGED notSwVars

\* window_i += window_j, two different objects
SwMerge(i, j) ==
    /\ swOps < MaxSwOps
    /\ i # j
    /\ sw' = [sw EXCEPT ![i] = SlidingMerge(@, sw[j])]
    /\ swPushed' = [swPushed EXCEPT ![i] = @ \o sw[j].values_]
    /\ swOps' = swOps + 1
    /\ UNCHANGED notSwVars

\* window.eval(): rebuilds the cache when it is not valid
SwEval(i) ==
    /\ swOps < MaxSwOps
    /\ sw' = [sw EXCEPT ![i] = IF @.cache_valid_ THEN @ ELSE SlidingRebuildCache(@)]
    /\ swOps' = swOps + 1
    /\ UNCHANGED swPushed
    /\ UNCHANGED notSwVars

NextSw ==
    \/ \E i \in {1, 2}, v \in SwValues : SwUpdate(i, v)
    \/ \E i, j \in {1, 2} : SwMerge(i, j)
    \/ \E i \in {1, 2} : SwEval(i)

SpecSw == InitSw /\ [][NextSw]_vars

Min2(a, b) == IF a < b THEN a ELSE b

\* the last n elements of vs
LastN(vs, n) == SubSeq(vs, Len(vs) - n + 1, Len(vs))

MaxDuration == 2     \* largest window_size_ of a time window, in clock ticks
MaxTime     == 3     \* last reading of the clock
MaxTwOps    == 3     \* calls made on the time windows

TwValues == {One, FromInt(2)}

\* windowed_accumulator(window_size)
WindowedNew(window_size) ==
    [window_size_ |-> window_size, values_ |-> <<>>,
     cached_acc_ |-> KbnNew, cache_valid_ |-> FALSE]

\* expire_old() called when clock::now() = t
RECURSIVE ExpireOld(_, _)
ExpireOld(w, t) ==
    LET cutoff == t - w.window_size_
    IN  IF w.values_ # <<>> /\ Head(w.values_).timestamp < cutoff
        THEN ExpireOld([w EXCEPT !.values_ = Tail(@), !.cache_valid_ = FALSE], t)
        ELSE w

\* operator+=(const T& value) called at time t
WindowedAdd(w, value, t) ==
    [ExpireOld(w, t) EXCEPT
        !.values_ = Append(@, [timestamp |-> t, value |-> value]),
        !.cache_valid_ = FALSE]

\* add(value, timestamp) called at time t
WindowedAddAt(w, value, timestamp, t) ==
    ExpireOld([w EXCEPT
                  !.values_ = Append(@, [timestamp |-> timestamp, value |-> value]),
                  !.cache_valid_ = FALSE], t)

\* operator+=(const windowed_accumulator& other) called at time t
WindowedMerge(w, other, t) ==
    ExpireOld([w EXCEPT !.values_ = @ \o other.values_,
                        !.cache_valid_ = FALSE], t)

WindowedRebuildCache(w) ==
    [w EXCEPT
        !.cached_acc_ = Fold(KbnNew, [k \in 1..Len(w.values_) |-> w.values_[k].value]),
        !.cache_valid_ = TRUE]

\* eval() called at time t: the state it leaves
WindowedEval(w, t) ==
    LET e == ExpireOld(w, t)
    IN  IF e.cache_valid_ THEN e ELSE WindowedRebuildCache(e)

InitTw ==
    /\ tw \in [{1, 2} -> {WindowedNew(d) : d \in 1..MaxDuration}]
    /\ now = 0
    /\ twLast = [op |-> "none", win |-> 1, time |-> 0, result |-> Zero, calls |-> 0]
    /\ AlgIdle /\ CondIdle /\ SwIdle /\ ThIdle /\ ExtIdle

TwCanCall == twLast.calls < MaxTwOps

\* the clock advances
Tick ==
    /\ now < MaxTime
    /\ now' = now + 1
    /\ UNCHANGED <<tw, twLast>>
    /\ UNCHANGED notTwVars

\* window += value
TwUpdate(i, v) ==
    /\ TwCanCall
    /\ tw' = [tw EXCEPT ![i] = WindowedAdd(@, v, now)]
    /\ twLast' = [op |-> "update", win |-> i, time |-> now, result |-> Zero,
                  calls |-> twLast.calls + 1]
    /\ UNCHANGED now
    /\ UNCHANGED notTwVars

\* window.add(value, timestamp)
TwAddAt(i, v, ts) ==
    /\ TwCanCall
    /\ tw' = [tw EXCEPT ![i] = WindowedAddAt(@, v, ts, now)]
    /\ twLast' = [op |-> "add", win |-> i, time |-> now, result |-> Zero,
                  calls |-> twLast.calls + 1]
    /\ UNCHANGED now
    /\ UNCHANGED notTwVars

\* window_i += window_j, two different objects
TwMerge(i, j) ==
    /\ TwCanCall
    /\ i # j
    /\ tw' = [tw EXCEPT ![i] = WindowedMerge(@, tw[j], now)]
    /\ twLast' = [op |-> "merge", win |-> i, time |-> now, result |-> Zero,
                  calls |-> twLast.calls + 1]
    /\ UNCHANGED now
    /\ UNCHANGED notTwVars

\* window.eval()
TwEval(i) ==
    /\ TwCanCall
    /\ tw' = [tw EXCEPT ![i] = WindowedEval(@, now)]
    /\ twLast' = [op |-> "eval", win |-> i, time |-> now,
                  result |-> KbnEval(WindowedEval(tw[i], now).cached_acc_),
                  calls |-> twLast.calls + 1]
    /\ UNCHANGED now
    /\ UNCHANGED notTwVars

NextTw ==
    \/ Tick
    \/ \E i \in {1, 2}, v \in TwValues : TwUpdate(i, v)
    \/ \E i \in {1, 2}, v \in TwValues, ts \in 0..MaxTime : TwAddAt(i, v, ts)
    \/ \E i, j \in {1, 2} : TwMerge(i, j)
    \/ \E i \in {1, 2} : TwEval(i)

SpecTw == InitTw /\ [][NextTw]_vars

\* the values of the entries of w that are in the window at time t
InWindowValues(w, t) ==
    LET sel == SelectSeq(w.values_, LAMBDA e : e.timestamp >= t - w.window_size_)
    IN  [k \in 1..Len(sel) |-> sel[k].value]

\* C10: right after an update, add, merge or eval call made at time now, the
\* window it was made on retains no entry older than now minus the window
\* duration, and eval() returns the fold of the in-window entries only.
C10_NoStaleEntryAfterCall ==
    (twLast.op # "none" /\ twLast.time = now) =>
        LET w == tw[twLast.win]
        IN  /\ \A k \in 1..Len(w.values_) :
                  w.values_[k].timestamp >= now - w.window_size_
            /\ twLast.op = "eval" =>
                  twLast.result = KbnEval(Fold(KbnNew, InWindowValues(w, now)))

(***************************************************************************)
(* mutex_accumulator, rw_accumulator and sharded_accumulator used from     *)
(* several threads.  inst[a] is the sequence of accumulators object a      *)
(* owns (one for the mutex and rw wrappers, num_shards_ for the sharded    *)
(* one); mutex <<a, i>> guards inst[a][i].  shards_[i] of the code is      *)
(* inst[a][i + 1].  A thread makes the calls of th[t].prog in order; a     *)
(* call is [op, on, other, v].                                             *)
(***************************************************************************)
NumWriters       == 2    \* writer threads
UpdatesPerWriter == 2    \* updates issued by each writer
MaxShards        == 2    \* largest num_shards_ of a sharded wrapper
MaxBystanderOps  == 1    \* calls of the thread that runs beside the two mergers

Mutexes == {m \in (DOMAIN inst) \X (1..MaxShards) : m[2] <= Len(inst[m[1]])}

Unlocked == [excl |-> 0, shared |-> {}]

\* whether a lock()/lock_shared() of w = [m, mode] would succeed at once
IsFreeIgnoringReaders(lk, w) == lk[w.m].excl = 0

IsFree(lk, w) ==
    IF w.mode = "excl"
    THEN lk[w.m].excl = 0 /\ lk[w.m].shared = {}
    ELSE lk[w.m].excl = 0

\* std::lock_guard, std::unique_lock, std::shared_lock, and std::scoped_lock /
\* std::lock on several mutexes: the call blocks until it owns all of
\* `rest`, and owns none of them while it waits (deadlock avoidance).  The
\* result is how many of `rest`, in argument order, the calling thread
\* acquires in this step.
StdLockNoWait(rest, lk) == Len(rest)

StdLockInOrder(rest, lk) == IF IsFree(lk, rest[1]) THEN 1 ELSE 0

\* no mutex is named twice
Distinct(rest) == \A j, k \in 1..Len(rest) : j # k => rest[j].m # rest[k].m

\* a mutex named twice is never owned twice: the call waits for ever
StdLock(rest, lk) ==
    IF Distinct(rest) /\ \A k \in 1..Len(rest) : IsFree(lk, rest[k])
    THEN Len(rest) ELSE 0

AcquireAll(lk, ws, t) ==
    [m \in DOMAIN lk |->
        IF \E k \in 1..Len(ws) : ws[k].m = m /\ ws[k].mode = "excl"
        THEN [lk[m] EXCEPT !.excl = t]
        ELSE IF \E k \in 1..Len(ws) : ws[k].m = m /\ ws[k].mode = "shared"
        THEN [lk[m] EXCEPT !.shared = @ \cup {t}]
        ELSE lk[m]]

ReleaseAll(lk, ws, t) ==
    [m \in DOMAIN lk |->
        IF \E k \in 1..Len(ws) : ws[k].m = m /\ ws[k].mode = "excl"
        THEN [lk[m] EXCEPT !.excl = 0]
        ELSE IF \E k \in 1..Len(ws) : ws[k].m = m /\ ws[k].mode = "shared"
        THEN [lk[m] EXCEPT !.shared = @ \ {t}]
        ELSE lk[m]]

\* get_shard_index(): hash of the thread id modulo num_shards_
ShardIndex(t, a) == (hash[t] % Len(inst[a])) + 1

CurOp(t) == Head(th[t].prog)

ReadMode == IF wrap = "rw" THEN "shared" ELSE "excl"

\* the mutexes the current call of t locks at its current position
Want(t) ==
    LET o == CurOp(t)
    IN  CASE o.op = "update" ->
               <<[m |-> <<o.on, ShardIndex(t, o.on)>>, mode |-> "excl"]>>
          [] o.op = "merge" ->
               <<[m |-> <<o.on, th[t].i>>, mode |-> "excl"],
                 [m |-> <<o.other, th[t].i>>, mode |-> ReadMode]>>
          [] o.op = "eval" ->
               <<[m |-> <<o.on, th[t].i>>, mode |-> ReadMode]>>
          [] o.op = "swap" ->
               <<[m |-> <<o.on, 1>>, mode |-> "excl"]>>
          [] o.op = "reset" ->
               <<[m |-> <<o.on, 1>>, mode |-> "excl"]>>

\* script, returned, base, upto and got record what the thread has done:
\* the calls it was given, how many have returned, the number of updates
\* that had returned when its current call took its first lock, the number
\* of updates that had begun when its last eval() returned, and the
\* accumulators its swap_and_reset() calls returned
NewThread(prog, after) ==
    [script |-> prog, prog |-> prog, pc |-> "lock", held |-> 0, i |-> 1,
     tmp |-> CountNew, ret |-> Zero, returned |-> 0, after |-> after,
     base |-> 0, upto |-> 0, got |-> <<>>]

RECURSIVE SumOver(_, _)
SumOver(f, S) ==
    IF S = {} THEN 0
    ELSE LET x == CHOOSE y \in S : TRUE IN f[x] + SumOver(f, S \ {x})

\* updates of thread u that have returned / that have taken their lock
UpdatesDone(u) ==
    Cardinality({k \in 1..th[u].returned : th[u].script[k].op = "update"})

UpdatesBegun(u) ==
    UpdatesDone(u) +
    (IF th[u].prog # <<>> /\ Head(th[u].prog).op = "update" /\ th[u].pc # "lock"
     THEN 1 ELSE 0)

CompletedUpdates == SumOver([u \in DOMAIN th |-> UpdatesDone(u)], DOMAIN th)
BegunUpdates     == SumOver([u \in DOMAIN th |-> UpdatesBegun(u)], DOMAIN th)

\* the call returns
Finish(rec) ==
    [rec EXCEPT !.prog = Tail(@), !.pc = "lock", !.held = 0, !.i = 1,
                !.tmp = CountNew, !.returned = @ + 1]

\* if (this != &other) of mutex_accumulator and rw_accumulator fails
SelfMergeSkipped(t) ==
    /\ wrap # "sharded"
    /\ CurOp(t).op = "merge"
    /\ CurOp(t).on = CurOp(t).other

\* the lock acquisition that opens a call or a loop iteration of a call
LockStep(t) ==
    /\ th[t].prog # <<>>
    /\ th[t].pc = "lock"
    /\ ~SelfMergeSkipped(t)
    /\ \A u \in th[t].after : th[u].prog = <<>>
    /\ \E want \in {Want(t)} :
       \E rest \in {SubSeq(want, th[t].held + 1, Len(want))} :
       \E n \in {StdLock(rest, lock)} :
           /\ n > 0
           /\ lock' = AcquireAll(lock, SubSeq(rest, 1, n), t)
           /\ th' = [th EXCEPT ![t].held = @ + n,
                               ![t].pc = IF th[t].held + n = Len(want)
                                         THEN "locked" ELSE "lock",
                               ![t].base = IF /\ CurOp(t).op = "eval"
                                              /\ th[t].held = 0 /\ th[t].i = 1
                                           THEN CompletedUpdates ELSE @]
    /\ UNCHANGED <<wrap, inst, hash>>
    /\ UNCHANGED notThVars

\* accumulator += value, first half: the accumulator is read
UpdRead(t) ==
    /\ th[t].prog # <<>>
    /\ th[t].pc = "locked"
    /\ CurOp(t).op = "update"
    /\ th' = [th EXCEPT ![t].tmp = inst[CurOp(t).on][ShardIndex(t, CurOp(t).on)],
                        ![t].pc = "write"]
    /\ UNCHANGED <<wrap, inst, lock, hash>>
    /\ UNCHANGED notThVars

\* accumulator += value, second half: the new state is stored; the lock_guard
\* is released and the call returns
UpdWrite(t) ==
    /\ th[t].prog # <<>>
    /\ th[t].pc = "write"
    /\ LET o == CurOp(t)
       IN  inst' = [inst EXCEPT ![o.on][ShardIndex(t, o.on)] = Update(th[t].tmp, o.v)]
    /\ lock' = ReleaseAll(lock, Want(t), t)
    /\ th' = [th EXCEPT ![t] = Finish(@)]
    /\ UNCHANGED <<wrap, hash>>
    /\ UNCHANGED notThVars

\* accumulator += other.accumulator under both locks; the locks are released;
\* the sharded wrapper goes on with the next shard
MergeApply(t) ==
    /\ th[t].prog # <<>>
    /\ th[t].pc = "locked"
    /\ CurOp(t).op = "merge"
    /\ LET o == CurOp(t)
           i == th[t].i
       IN  /\ inst' = [inst EXCEPT ![o.on][i] = Merge(inst[o.on][i], inst[o.other][i])]
           /\ th' = [th EXCEPT ![t] =
                        IF i < Min2(Len(inst[o.on]), Len(inst[o.other]))
                        THEN [@ EXCEPT !.i = i + 1, !.pc = "lock", !.held = 0]
                        ELSE Finish(@)]
    /\ lock' = ReleaseAll(lock, Want(t), t)
    /\ UNCHANGED <<wrap, hash>>
    /\ UNCHANGED notThVars

\* a += a on a mutex_accumulator or rw_accumulator: no lock is taken,
\* nothing is merged, the call returns
MergeSelfReturn(t) ==
    /\ th[t].prog # <<>>
    /\ th[t].pc = "lock"
    /\ \A u \in th[t].after : th[u].prog = <<>>
    /\ SelfMergeSkipped(t)
    /\ th' = [th EXCEPT ![t] = Finish(@)]
    /\ UNCHANGED <<wrap, inst, lock, hash>>
    /\ UNCHANGED notThVars

\* std::scoped_lock on one mutex twice (a += a on a sharded_accumulator):
\* the behaviour is undefined; besides waiting for ever (StdLock), the
\* call may be granted the mutex and go on
LockOwnedMutex(t) ==
    /\ th[t].prog # <<>>
    /\ th[t].pc = "lock"
    /\ \A u \in th[t].after : th[u].prog = <<>>
    /\ ~SelfMergeSkipped(t)
    /\ \E want \in {Want(t)} :
           /\ ~Distinct(want)
           /\ \A k \in 1..Len(want) : IsFree(lock, want[k])
           /\ lock' = AcquireAll(lock, want, t)
           /\ th' = [th EXCEPT ![t].held = Len(want), ![t].pc = "locked"]
    /\ UNCHANGED <<wrap, inst, hash>>
    /\ UNCHANGED notThVars

\* reset(): accumulator_ = Acc{} under the exclusive lock
ResetApply(t) ==
    /\ th[t].prog # <<>>
    /\ th[t].pc = "locked"
    /\ CurOp(t).op = "reset"
    /\ inst' = [inst EXCEPT ![CurOp(t).on][1] = Identity(@)]
    /\ lock' = ReleaseAll(lock, Want(t), t)
    /\ th' = [th EXCEPT ![t] = Finish(@)]
    /\ UNCHANGED <<wrap, hash>>
    /\ UNCHANGED notThVars

\* the shards eval() visits: i < num_shards_
EvalFirstShardOnly(a) == 1

EvalShards(a) == Len(inst[a])

\* eval(): accumulator_.eval() under the lock (mutex, rw); merged += shard
\* under the shard's lock, shard after shard, then merged.eval() (sharded)
EvalRead(t) ==
    /\ th[t].prog # <<>>
    /\ th[t].pc = "locked"
    /\ CurOp(t).op = "eval"
    /\ LET o == CurOp(t)
           i == th[t].i
           merged == Merge(IF i = 1 THEN Identity(inst[o.on][1]) ELSE th[t].tmp,
                           inst[o.on][i])
       IN  th' = [th EXCEPT ![t] =
                     IF wrap # "sharded"
                     THEN [Finish(@) EXCEPT !.ret = Eval(inst[o.on][1]),
                                            !.upto = BegunUpdates]
                     ELSE IF i < EvalShards(o.on)
                     THEN [@ EXCEPT !.i = i + 1, !.pc = "lock", !.held = 0,
                                    !.tmp = merged]
                     ELSE [Finish(@) EXCEPT !.ret = Eval(merged),
                                            !.upto = BegunUpdates]]
    /\ lock' = ReleaseAll(lock, Want(t), t)
    /\ UNCHANGED <<wrap, inst, hash>>
    /\ UNCHANGED notThVars

UpdateCall(a, v)    == [op |-> "update", on |-> a, other |-> a, v |-> v]
MergeCall(a, b)     == [op |-> "merge", on |-> a, other |-> b, v |-> Zero]
EvalCall(a)         == [op |-> "eval", on |-> a, other |-> a, v |-> Zero]
ResetCall(a)        == [op |-> "reset", on |-> a, other |-> a, v |-> Zero]

\* the wrapper objects of one type around default-constructed accumulators
Wrappers(objects, acc) ==
    {w \in [objects -> {[i \in 1..n |-> acc] : n \in 1..MaxShards}] :
        wrap # "sharded" => \A a \in objects : Len(w[a]) = 1}

(***************************************************************************)
(* Writers: NumWriters threads each issue UpdatesPerWriter updates of the  *)
(* same value to one wrapper; the main thread joins them and calls eval(). *)
(***************************************************************************)
Writers    == 1..NumWriters
MainThread == NumWriters + 1
WriterValues == {One, Norm(1, 2)}

InitWriters ==
    /\ wrap \in {"mutex", "sharded"}
    /\ \E acc \in {KbnNew, CountNew} : inst \in Wrappers({1}, acc)
    /\ lock = [m \in Mutexes |-> Unlocked]
    /\ hash \in {h \in [Writers \cup {MainThread} -> 0..(MaxShards - 1)] :
                    h[MainThread] = 0}
    /\ \E v \in WriterValues :
          th = [t \in Writers \cup {MainThread} |->
                  IF t = MainThread
                  THEN NewThread(<<EvalCall(1)>>, Writers)
                  ELSE NewThread([k \in 1..UpdatesPerWriter |-> UpdateCall(1, v)], {})]
    /\ AlgIdle /\ CondIdle /\ SwIdle /\ TwIdle /\ ExtIdle

NextWriters ==
    \/ \E t \in DOMAIN th : LockStep(t)
    \/ \E t \in DOMAIN th : UpdRead(t)
    \/ \E t \in DOMAIN th : UpdWrite(t)
    \/ \E t \in DOMAIN th : EvalRead(t)

SpecWriters == InitWriters /\ [][NextWriters]_vars

\* C3: after NumWriters threads have each issued UpdatesPerWriter updates of
\* the value v to one mutex_accumulator or sharded_accumulator, eval() returns
\* NumWriters * UpdatesPerWriter * v for kbn_sum and NumWriters *
\* UpdatesPerWriter for count_accumulator, whatever the interleaving and the
\* shard of each thread.
C3_NoLostUpdate ==
    th[MainThread].prog = <<>> =>
        th[MainThread].ret =
            IF inst[1][1].k = "count"
            THEN FromInt(NumWriters * UpdatesPerWriter)
            ELSE RMul(FromInt(NumWriters * UpdatesPerWriter), th[1].script[1].v)


C3_Witness ==
    /\ wrap = "sharded"
    /\ Len(inst[1]) = 2
    /\ hash[1] # hash[2]
    /\ inst[1][1].k = "kbn"
    /\ th[1].script[1].v = One
    /\ th[MainThread].returned = 1
    /\ th[MainThread].ret = FromInt(NumWriters * UpdatesPerWriter)

(***************************************************************************)
(* Mergers: thread 1 runs a += b while thread 2 runs b += a on two         *)
(* wrappers of the same type; thread 3 issues updates and evals on either  *)
(* wrapper beside them.                                                    *)
(***************************************************************************)
MergerThreads == {1, 2, 3}

BystanderCalls == {UpdateCall(1, One), UpdateCall(2, One), EvalCall(1), EvalCall(2)}

BystanderProgs ==
    UNION {[1..n -> BystanderCalls] : n \in 0..MaxBystanderOps}

InitMergers ==
    /\ wrap \in {"mutex", "rw", "sharded"}
    /\ inst \in Wrappers({1, 2}, CountNew)
    /\ lock = [m \in Mutexes |-> Unlocked]
    /\ hash \in {h \in [MergerThreads -> 0..(MaxShards - 1)] :
                    h[1] = 0 /\ h[2] = 0 /\ (wrap # "sharded" => h[3] = 0)}
    /\ \E p \in BystanderProgs :
          th = [t \in MergerThreads |->
                  CASE t = 1 -> NewThread(<<MergeCall(1, 2)>>, {})
                    [] t = 2 -> NewThread(<<MergeCall(2, 1)>>, {})
                    [] t = 3 -> NewThread(p, {})]
    /\ AlgIdle /\ CondIdle /\ SwIdle /\ TwIdle /\ ExtIdle

ThreadStep(t) ==
    LockStep(t) \/ UpdRead(t) \/ UpdWrite(t) \/ MergeApply(t) \/ EvalRead(t)

NextMergers ==
    \/ \E t \in DOMAIN th : LockStep(t)
    \/ \E t \in DOMAIN th : UpdRead(t)
    \/ \E t \in DOMAIN th : UpdWrite(t)
    \/ \E t \in DOMAIN th : MergeApply(t)
    \/ \E t \in DOMAIN th : EvalRead(t)

SpecMergers == InitMergers /\ [][NextMergers]_vars

\* every thread that can take a step eventually takes one (the scheduler
\* runs every runnable thread)
FairMergers == SpecMergers /\ \A t \in MergerThreads : WF_vars(ThreadStep(t))

AllReturned == \A t \in MergerThreads : th[t].prog = <<>>

\* C4: when one thread merges a into b while another merges b into a (mutex,
\* rw and sharded wrappers), with updates and evals running beside them,
\* every call eventually returns: the two merges never deadlock.
C4_OppositeMergesReturn == <>AllReturned

C4_Witness ==
    /\ wrap = "rw"
    /\ AllReturned
    /\ th[1].returned = 1
    /\ th[2].returned = 1
    /\ th[3].returned = MaxBystanderOps

(***************************************************************************)
(* map_reduce_accumulator<Acc>::process, with and without a mapper.  The   *)
(* range [first, last) is mr.data; iterator positions are indices          *)
(* 1..Len(data) + 1.  mr.futures[i] is the task launched for worker i      *)
(* (0-based i - 1 in the code): its chunk [start, end), its position and   *)
(* its local_acc.                                                          *)
(***************************************************************************)
MaxRange   == 4    \* longest range processed
MaxWorkers == 3    \* largest num_workers_

OldIdle == AlgIdle /\ CondIdle /\ SwIdle /\ TwIdle /\ ThIdle

MrValues == {FromInt(-1), One, FromInt(2)}
MrKinds  == {"kbn", "min", "welford"}

\* the mapper of the test: x * x
Mapper(x) == RMul(x, x)

Mapped(m, x) == IF m.mapper THEN Mapper(x) ELSE x

\* this_chunk of the worker with 0-based index i
ThisChunkNoRemainder(total, workers, i) == total \div workers

ThisChunk(total, workers, i) ==
    LET chunk_size == total \div workers
        remainder  == total % workers
    IN  chunk_size + (IF i < remainder THEN 1 ELSE 0)

\* chunk_start of the worker with 0-based index i
RECURSIVE ChunkStart(_, _, _)
ChunkStart(total, workers, i) ==
    IF i = 0 THEN 1
    ELSE ChunkStart(total, workers, i - 1) + ThisChunk(total, workers, i - 1)

InitMr ==
    /\ mr \in [kind : MrKinds,
               data : UNION {[1..n -> MrValues] : n \in 0..MaxRange},
               num_workers_ : 1..MaxWorkers,
               mapper : BOOLEAN,
               pc : {"start"}, futures : {<<>>}, got : {0},
               result : {"none"}]
    /\ hm = "none" /\ ctor = "none" /\ hist = "none" /\ fp = "none" /\ MoreIdle
    /\ OldIdle

\* empty range: return Acc{}
MrEmpty ==
    /\ mr.pc = "start"
    /\ Len(mr.data) = 0
    /\ mr' = [mr EXCEPT !.pc = "done", !.result = New(mr.kind)]
    /\ UNCHANGED notMrVars

\* fewer elements than workers, no mapper: fold in the calling thread
MrSequential ==
    /\ mr.pc = "start"
    /\ ~mr.mapper
    /\ Len(mr.data) # 0
    /\ Len(mr.data) < mr.num_workers_
    /\ mr' = [mr EXCEPT !.pc = "done", !.result = Fold(New(mr.kind), mr.data)]
    /\ UNCHANGED notMrVars

\* the loop that launches one std::async task per worker
MrLaunch ==
    /\ mr.pc = "start"
    /\ Len(mr.data) # 0
    /\ mr.mapper \/ Len(mr.data) >= mr.num_workers_
    /\ mr' = [mr EXCEPT
                !.pc = "merge",
                !.result = New(mr.kind),
                !.futures =
                    [w \in 1..mr.num_workers_ |->
                        LET start == ChunkStart(Len(mr.data), mr.num_workers_, w - 1)
                        IN  [start |-> start,
                             end   |-> start + ThisChunk(Len(mr.data), mr.num_workers_, w - 1),
                             pos   |-> start,
                             local_acc |-> New(mr.kind)]]]
    /\ UNCHANGED notMrVars

\* one iteration of a worker's loop: local_acc += *start (or mapper(*start))
MrWork(w) ==
    /\ mr.pc = "merge"
    /\ w \in 1..Len(mr.futures)
    /\ mr.futures[w].pos < mr.futures[w].end
    /\ mr' = [mr EXCEPT
                !.futures[w].local_acc =
                    Update(@, Mapped(mr, mr.data[mr.futures[w].pos])),
                !.futures[w].pos = @ + 1]
    /\ UNCHANGED notMrVars

\* result += f.get(): blocks until the task has returned
MrGet ==
    /\ mr.pc = "merge"
    /\ mr.got < Len(mr.futures)
    /\ LET f == mr.futures[mr.got + 1]
       IN  /\ f.pos = f.end
           /\ mr' = [mr EXCEPT
                        !.result = Merge(mr.result, f.local_acc),
                        !.got = @ + 1,
                        !.pc = IF mr.got + 1 = Len(mr.futures)
                               THEN "done" ELSE "merge"]
    /\ UNCHANGED notMrVars

NextMr ==
    \/ MrEmpty
    \/ MrSequential
    \/ MrLaunch
    \/ \E w \in 1..MaxWorkers : MrWork(w)
    \/ MrGet

SpecMr == InitMr /\ [][NextMr]_vars

MappedData == [i \in 1..Len(mr.data) |-> Mapped(mr, mr.data[i])]

\* the chunks are contiguous, in range order, and cover the range once
ChunksPartitionRange ==
    LET f == mr.futures
    IN  /\ f[1].start = 1
        /\ f[Len(f)].end = Len(mr.data) + 1
        /\ \A w \in 1..Len(f) : f[w].start <= f[w].end
        /\ \A w \in 1..(Len(f) - 1) : f[w + 1].start = f[w].end

\* C11: process() gives every worker a contiguous chunk, the chunks in
\* range order cover the range exactly once, process() returns only when
\* every worker has finished its chunk, and the returned accumulator has
\* the result of the sequential fold of the (mapped) range.
C11_MapReduceEqualsFold ==
    /\ mr.futures # <<>> => ChunksPartitionRange
    /\ mr.pc = "done" =>
          /\ \A w \in 1..Len(mr.futures) : mr.futures[w].pos = mr.futures[w].end
          /\ Stats(mr.result) = Stats(Fold(New(mr.kind), MappedData))

C11_Witness ==
    /\ mr.pc = "done"
    /\ mr.kind = "welford"
    /\ mr.mapper
    /\ mr.num_workers_ = 3
    /\ mr.data = <<FromInt(2), FromInt(-1), One, FromInt(2)>>
    /\ mr.futures[1].end = 3
    /\ mr.got = 3

(***************************************************************************)
(* hierarchical_merge<Acc>::merge.  hm.accumulators is the vector of the   *)
(* code, hm.input the vector as it was passed.                             *)
(***************************************************************************)
MaxPartials == 5    \* longest vector of partial accumulators

HmKinds == {"kbn", "min", "welford"}

\* partial accumulators: empty, or fed one or two values
Partials(kd) ==
    {New(kd)} \cup {Update(New(kd), v) : v \in MrValues}
              \cup {Update(Update(New(kd), One), FromInt(2))}

\* one pass of the while loop: adjacent pairs are merged, an odd last
\* element is carried over
NextLevelDropOdd(accumulators) ==
    [j \in 1..(Len(accumulators) \div 2) |->
        Merge(accumulators[2 * j - 1], accumulators[2 * j])]

NextLevel(accumulators) ==
    LET n == Len(accumulators)
    IN  [j \in 1..((n + 1) \div 2) |->
            IF 2 * j <= n
            THEN Merge(accumulators[2 * j - 1], accumulators[2 * j])
            ELSE accumulators[n]]

InitHm ==
    /\ \E kd \in HmKinds :
       \E input \in UNION {[1..n -> Partials(kd)] : n \in 0..MaxPartials} :
          hm = [kind |-> kd, input |-> input, accumulators |-> input,
                pc |-> "start", levels |-> 0, result |-> New(kd)]
    /\ mr = "none" /\ ctor = "none" /\ hist = "none" /\ fp = "none" /\ MoreIdle
    /\ OldIdle

\* if (accumulators.empty()) return Acc{}
HmEmpty ==
    /\ hm.pc = "start"
    /\ Len(hm.accumulators) = 0
    /\ hm' = [hm EXCEPT !.pc = "done", !.result = New(hm.kind)]
    /\ UNCHANGED notHmVars

\* one iteration of while (accumulators.size() > 1)
HmLevel ==
    /\ hm.pc = "start"
    /\ Len(hm.accumulators) > 1
    /\ hm' = [hm EXCEPT !.accumulators = NextLevel(@), !.levels = @ + 1]
    /\ UNCHANGED notHmVars

\* return std::move(accumulators[0])
HmReturn ==
    /\ hm.pc = "start"
    /\ Len(hm.accumulators) = 1
    /\ hm' = [hm EXCEPT !.pc = "done", !.result = hm.accumulators[1]]
    /\ UNCHANGED notHmVars

NextHm == HmEmpty \/ HmLevel \/ HmReturn

SpecHm == InitHm /\ [][NextHm]_vars

\* ((a1 += a2) += a3) += ...
RECURSIVE LinearChain(_, _)
LinearChain(acc, rest) ==
    IF rest = <<>> THEN acc ELSE LinearChain(Merge(acc, Head(rest)), Tail(rest))

\* C12: hierarchical_merge::merge returns an accumulator with the result of
\* merging the vector left to right in one chain; an empty vector gives the
\* identity and a one-element vector gives that element.
C12_TreeMergeEqualsChain ==
    hm.pc = "done" =>
        /\ Len(hm.input) = 0 => hm.result = New(hm.kind)
        /\ Len(hm.input) = 1 => hm.result = hm.input[1]
        /\ Len(hm.input) >= 1 =>
              Stats(hm.result) = Stats(LinearChain(Head(hm.input), Tail(hm.input)))

C12_Witness ==
    /\ hm.pc = "done"
    /\ hm.kind = "welford"
    /\ Len(hm.input) = 5
    /\ hm.levels = 3
    /\ \A i \in 1..5 : WelfordSize(hm.input[i]) >= 1
    /\ WelfordSize(hm.result) = 6

(***************************************************************************)
(* rw_accumulator: three threads make updates, evals and merges on two     *)
(* rw_accumulator objects, one or two calls each (one for thread 3).       *)
(***************************************************************************)
RwThreads == {1, 2, 3}

RwCalls == {UpdateCall(1, One), EvalCall(1), MergeCall(1, 2), MergeCall(2, 1)}

RwProgs == UNION {[1..n -> RwCalls] : n \in 1..2}

InitRw ==
    /\ wrap = "rw"
    /\ inst \in Wrappers({1, 2}, CountNew)
    /\ lock = [m \in Mutexes |-> Unlocked]
    /\ hash = [t \in RwThreads |-> 0]
    /\ \E p \in {q \in [RwThreads -> RwProgs] : Len(q[3]) = 1} :
          th = [t \in RwThreads |-> NewThread(p[t], {})]
    /\ AlgIdle /\ CondIdle /\ SwIdle /\ TwIdle /\ ExtIdle

SpecRw == InitRw /\ [][NextMergers]_vars

\* thread t is executing on the wrapped accumulator of object a
InsideCall(t) == th[t].prog # <<>> /\ th[t].pc \in {"locked", "write"}

\* ... changing it: accumulator_ += value, accumulator_ += other.accumulator_
WritesInside(t, a) ==
    /\ InsideCall(t)
    /\ CurOp(t).op \in {"update", "merge"}
    /\ CurOp(t).on = a

\* ... reading it: accumulator_.eval(), or as other.accumulator_ of a merge
ReadsInside(t, a) ==
    /\ InsideCall(t)
    /\ \/ CurOp(t).op = "eval" /\ CurOp(t).on = a
       \/ CurOp(t).op = "merge" /\ CurOp(t).other = a

\* C13: while an update or a merge runs on the accumulator of an
\* rw_accumulator, no other thread is inside that accumulator, neither
\* writing nor reading it (several eval() calls may be inside together).
C13_WriterExcludesAll ==
    \A a \in DOMAIN inst : \A t, u \in DOMAIN th :
        (t # u /\ WritesInside(t, a)) => ~(WritesInside(u, a) \/ ReadsInside(u, a))

C13_Witness ==
    /\ ReadsInside(1, 1) /\ CurOp(1).op = "eval"
    /\ ReadsInside(2, 1) /\ CurOp(2).op = "eval"
    /\ th[3].prog # <<>> /\ CurOp(3).op = "update" /\ th[3].pc = "lock"

(***************************************************************************)
(* sharded_accumulator::eval() while the writers are running: the setting  *)
(* of Writers, except that every writer issues one update and the main     *)
(* thread does not join the writers before it calls eval().                *)
(***************************************************************************)
InitSnapshot ==
    /\ wrap = "sharded"
    /\ \E acc \in {KbnNew, CountNew} : inst \in Wrappers({1}, acc)
    /\ lock = [m \in Mutexes |-> Unlocked]
    /\ hash \in {h \in [Writers \cup {MainThread} -> 0..(MaxShards - 1)] :
                    h[MainThread] = 0}
    /\ \E v \in WriterValues :
          th = [t \in Writers \cup {MainThread} |->
                  IF t = MainThread
                  THEN NewThread(<<EvalCall(1)>>, {})
                  ELSE NewThread(<<UpdateCall(1, v)>>, {})]
    /\ AlgIdle /\ CondIdle /\ SwIdle /\ TwIdle /\ ExtIdle

SpecSnapshot == InitSnapshot /\ [][NextWriters]_vars

\* the total of n updates: n for count_accumulator, n * v for kbn_sum
TotalOf(n) ==
    IF inst[1][1].k = "count" THEN FromInt(n)
    ELSE RMul(FromInt(n), th[1].script[1].v)

\* the eval() of the main thread has returned: ret, base and upto are set
EvalJustReturned == th[MainThread].returned = 1

\* C14: an eval() of a sharded_accumulator that runs beside the writers
\* returns at least the total of the updates that had returned when it took
\* its first shard lock and at most the total of the updates that had begun
\* when it returned; when all writers had finished it returns the exact
\* total.
C14_SnapshotBetweenBounds ==
    EvalJustReturned =>
        /\ RGe(th[MainThread].ret, TotalOf(th[MainThread].base))
        /\ RGe(TotalOf(th[MainThread].upto), th[MainThread].ret)
        /\ th[MainThread].base = NumWriters =>
              th[MainThread].ret = TotalOf(NumWriters)

\* an eval() that returned neither the total at its start nor at its end
C14_Witness ==
    /\ EvalJustReturned
    /\ Len(inst[1]) = 2
    /\ inst[1][1].k = "kbn"
    /\ RLt(TotalOf(th[MainThread].base), th[MainThread].ret)
    /\ RLt(th[MainThread].ret, TotalOf(CompletedUpdates))

(***************************************************************************)
(* mutex_accumulator::swap_and_reset() beside the writers: the setting of  *)
(* Writers on one mutex_accumulator, with a main thread that calls         *)
(* swap_and_reset() twice without joining the writers.                     *)
(***************************************************************************)
SwapCall(a) == [op |-> "swap", on |-> a, other |-> a, v |-> Zero]

\* accumulator_ = Acc{}
SwapKept(acc) == acc

SwapCleared(acc) == Identity(acc)

\* Acc result = std::move(accumulator_)
SwapTake(t) ==
    /\ th[t].prog # <<>>
    /\ th[t].pc = "locked"
    /\ CurOp(t).op = "swap"
    /\ th' = [th EXCEPT ![t].tmp = inst[CurOp(t).on][1], ![t].pc = "swap"]
    /\ UNCHANGED <<wrap, inst, lock, hash>>
    /\ UNCHANGED notThVars

\* accumulator_ = Acc{}; return result (the lock_guard is released)
SwapClear(t) ==
    /\ th[t].prog # <<>>
    /\ th[t].pc = "swap"
    /\ inst' = [inst EXCEPT ![CurOp(t).on][1] = SwapCleared(inst[CurOp(t).on][1])]
    /\ lock' = ReleaseAll(lock, Want(t), t)
    /\ th' = [th EXCEPT ![t] = [Finish(@) EXCEPT !.got = Append(@, th[t].tmp)]]
    /\ UNCHANGED <<wrap, hash>>
    /\ UNCHANGED notThVars

InitSwap ==
    /\ wrap = "mutex"
    /\ \E acc \in {KbnNew, CountNew} : inst \in Wrappers({1}, acc)
    /\ lock = [m \in Mutexes |-> Unlocked]
    /\ hash = [t \in Writers \cup {MainThread} |-> 0]
    /\ \E v \in WriterValues :
          th = [t \in Writers \cup {MainThread} |->
                  IF t = MainThread
                  THEN NewThread(<<SwapCall(1), SwapCall(1)>>, {})
                  ELSE NewThread([k \in 1..UpdatesPerWriter |-> UpdateCall(1, v)], {})]
    /\ AlgIdle /\ CondIdle /\ SwIdle /\ TwIdle /\ ExtIdle

NextSwap ==
    \/ \E t \in DOMAIN th : LockStep(t)
    \/ \E t \in DOMAIN th : UpdRead(t)
    \/ \E t \in DOMAIN th : UpdWrite(t)
    \/ \E t \in DOMAIN th : SwapTake(t)
    \/ \E t \in DOMAIN th : SwapClear(t)

SpecSwap == InitSwap /\ [][NextSwap]_vars

RECURSIVE SumOfEvals(_)
SumOfEvals(accs) ==
    IF accs = <<>> THEN Zero ELSE RAdd(Eval(Head(accs)), SumOfEvals(Tail(accs)))

NoCallRunning == \A t \in DOMAIN th : th[t].pc = "lock" /\ th[t].held = 0

\* C15: whenever no call is running on the mutex_accumulator, the states
\* returned by the swap_and_reset() calls so far and the state left in the
\* wrapper add up to the total of the updates that have returned: every
\* update is in exactly one of them.
C15_SwapAndResetConserves ==
    NoCallRunning =>
        RAdd(SumOfEvals(th[MainThread].got), Eval(inst[1][1]))
            = TotalOf(CompletedUpdates)

C15_Witness ==
    /\ \A t \in DOMAIN th : th[t].prog = <<>>
    /\ inst[1][1].k = "count"
    /\ Eval(th[MainThread].got[1]) = One
    /\ Eval(th[MainThread].got[2]) = FromInt(2)
    /\ Eval(inst[1][1]) = FromInt(NumWriters * UpdatesPerWriter - 3)

(***************************************************************************)
(* histogram_accumulator<T>.  counts_[i] of the code is counts_[i + 1].    *)
(***************************************************************************)
HistogramNew(min, max, num_bins) ==
    [k |-> "histogram", min_ |-> min, max_ |-> max, num_bins_ |-> num_bins,
     bin_width_ |-> RDiv(RSub(max, min), FromInt(num_bins)),
     counts_ |-> [i \in 1..num_bins |-> 0],
     underflow_ |-> 0, overflow_ |-> 0, total_ |-> 0]

\* static_cast<std::size_t> of a non-negative value
Truncate(x) == x[1] \div x[2]

\* an update that counts a value at or above max_ in the last bin as well
HistogramAddOverflowTwice(h, value) ==
    IF RLt(value, h.min_)
    THEN [h EXCEPT !.total_ = @ + 1, !.underflow_ = @ + 1]
    ELSE IF RGe(value, h.max_)
    THEN [h EXCEPT !.total_ = @ + 1, !.overflow_ = @ + 1,
                   !.counts_[h.num_bins_] = @ + 1]
    ELSE LET bin == Min2(Truncate(RDiv(RSub(value, h.min_), h.bin_width_)),
                         h.num_bins_ - 1)
         IN  [h EXCEPT !.total_ = @ + 1, !.counts_[bin + 1] = @ + 1]

HistogramAdd(h, value) ==
    IF RLt(value, h.min_)
    THEN [h EXCEPT !.total_ = @ + 1, !.underflow_ = @ + 1]
    ELSE IF RGe(value, h.max_)
    THEN [h EXCEPT !.total_ = @ + 1, !.overflow_ = @ + 1]
    ELSE LET bin == Min2(Truncate(RDiv(RSub(value, h.min_), h.bin_width_)),
                         h.num_bins_ - 1)
         IN  [h EXCEPT !.total_ = @ + 1, !.counts_[bin + 1] = @ + 1]

\* operator+=(NaN): both comparisons are false, and the conversion of NaN to
\* std::size_t is undefined; `bin` is the value it yields
HistogramAddNaN(h, bin) ==
    [h EXCEPT !.total_ = @ + 1,
              !.counts_[Min2(bin, h.num_bins_ - 1) + 1] = @ + 1]

\* the test that guards operator+=(const histogram_accumulator&)
SameBinsIgnoringMax(h, other) ==
    h.min_ = other.min_ /\ h.num_bins_ = other.num_bins_

SameBins(h, other) ==
    h.min_ = other.min_ /\ h.max_ = other.max_ /\ h.num_bins_ = other.num_bins_

\* operator+=(const histogram_accumulator&) when it does not throw
HistogramMerge(h, other) ==
    [h EXCEPT !.counts_ = [i \in 1..h.num_bins_ |-> h.counts_[i] + other.counts_[i]],
              !.underflow_ = @ + other.underflow_,
              !.overflow_ = @ + other.overflow_,
              !.total_ = @ + other.total_]

(***************************************************************************)
(* Constructors that take configuration.  ctor records the last            *)
(* constructor call: the type, the arguments, whether it threw             *)
(* std::invalid_argument, and the object constructed if it did not.        *)
(***************************************************************************)
MaxBins == 3    \* largest num_bins, window size and duration passed

Threw == [threw |-> TRUE]
Constructed(obj) == [threw |-> FALSE, obj |-> obj]

\* sliding_window_accumulator(std::size_t window_size)
SlidingCtor(window_size) ==
    IF window_size = 0 THEN Threw ELSE Constructed(SlidingNew(window_size))

\* windowed_accumulator(duration window_size), windowed_accumulator(double seconds)
WindowedCtor(window_size) == Constructed(WindowedNew(window_size))

\* p2_quantile_accumulator(T p)
QuantileCtor(p) ==
    IF ~RLt(Zero, p) \/ RGe(p, One)
    THEN Threw
    ELSE Constructed([k |-> "p2_quantile", p_ |-> p, count_ |-> 0])

\* histogram_accumulator(T min, T max, std::size_t num_bins)
HistogramCtor(min, max, num_bins) ==
    IF RGe(min, max) THEN Threw
    ELSE IF num_bins = 0 THEN Threw
    ELSE Constructed(HistogramNew(min, max, num_bins))

Durations     == -1..MaxBins
QuantilePs    == {FromInt(-1), Zero, Norm(1, 4), Norm(1, 2), One, FromInt(2)}
HistogramEnds == {FromInt(-1), Zero, Norm(1, 2), One, FromInt(2)}

InitCtor ==
    /\ ctor = [type |-> "none", args |-> <<>>, outcome |-> Threw]
    /\ mr = "none" /\ hm = "none" /\ hist = "none" /\ fp = "none" /\ MoreIdle
    /\ OldIdle

ConstructSliding ==
    /\ \E n \in 0..MaxBins :
          ctor' = [type |-> "sliding_window", args |-> <<n>>, outcome |-> SlidingCtor(n)]
    /\ UNCHANGED notCtorVars

ConstructWindowed ==
    /\ \E d \in Durations :
          ctor' = [type |-> "windowed", args |-> <<d>>, outcome |-> WindowedCtor(d)]
    /\ UNCHANGED notCtorVars

ConstructQuantile ==
    /\ \E q \in QuantilePs :
          ctor' = [type |-> "p2_quantile", args |-> <<q>>, outcome |-> QuantileCtor(q)]
    /\ UNCHANGED notCtorVars

ConstructHistogram ==
    /\ \E lo \in HistogramEnds, hi \in HistogramEnds, n \in 0..MaxBins :
          ctor' = [type |-> "histogram", args |-> <<lo, hi, n>>,
                   outcome |-> HistogramCtor(lo, hi, n)]
    /\ UNCHANGED notCtorVars

NextCtor ==
    ConstructSliding \/ ConstructWindowed \/ ConstructQuantile \/ ConstructHistogram

SpecCtor == InitCtor /\ [][NextCtor]_vars

\* the configurations the four types must reject
InvalidConfiguration ==
    CASE ctor.type = "sliding_window" -> ctor.args[1] = 0
      [] ctor.type = "windowed"       -> ctor.args[1] <= 0
      [] ctor.type = "p2_quantile"    ->
            ~(RLt(Zero, ctor.args[1]) /\ RLt(ctor.args[1], One))
      [] ctor.type = "histogram"      ->
            RGe(ctor.args[1], ctor.args[2]) \/ ctor.args[3] = 0
      [] OTHER -> FALSE

\* C16: a constructor call with an invalid configuration (window size 0,
\* non-positive window duration, quantile target outside (0,1), histogram
\* with min >= max or no bins) throws, and a call with a valid configuration
\* constructs the object.
C16_InvalidConfigurationRejected ==
    ctor.type # "none" => (ctor.outcome.threw <=> InvalidConfiguration)

(***************************************************************************)
(* Two histogram_accumulator objects, updated and merged into each other.  *)
(* hist.h is the pair of objects; hist.last the last call: the operation,  *)
(* the objects before it, and whether it threw.                            *)
(***************************************************************************)
MaxHistOps == 3    \* calls made on the histograms

HistConfigs ==
    {<<Zero, One, 1>>, <<Zero, One, 2>>, <<Zero, FromInt(2), 2>>,
     <<FromInt(-1), One, 2>>}

HistValues == {FromInt(-1), Zero, Norm(1, 2), One, Norm(3, 2), FromInt(2)}

InitHist ==
    /\ \E c1 \in HistConfigs, c2 \in HistConfigs :
          hist = [h |-> <<HistogramNew(c1[1], c1[2], c1[3]),
                          HistogramNew(c2[1], c2[2], c2[3])>>,
                  last |-> [op |-> "none"],
                  calls |-> 0]
    /\ mr = "none" /\ hm = "none" /\ ctor = "none" /\ fp = "none" /\ MoreIdle
    /\ OldIdle

\* h[i] += value
HistUpdate(i, value) ==
    /\ hist.calls < MaxHistOps
    /\ hist' = [h |-> [hist.h EXCEPT ![i] = HistogramAdd(@, value)],
                last |-> [op |-> "update", on |-> i, before |-> hist.h,
                          threw |-> FALSE, value |-> value],
                calls |-> hist.calls + 1]
    /\ UNCHANGED notHistVars

\* h[i] += NaN
HistUpdateNaN(i, bin) ==
    /\ hist.calls < MaxHistOps
    /\ hist' = [h |-> [hist.h EXCEPT ![i] = HistogramAddNaN(@, bin)],
                last |-> [op |-> "update_nan", on |-> i, before |-> hist.h,
                          threw |-> FALSE],
                calls |-> hist.calls + 1]
    /\ UNCHANGED notHistVars

\* h[i] += h[j]
HistMergeCall(i, j) ==
    /\ hist.calls < MaxHistOps
    /\ LET ok == SameBins(hist.h[i], hist.h[j])
       IN  hist' = [h |-> IF ok
                          THEN [hist.h EXCEPT ![i] = HistogramMerge(@, hist.h[j])]
                          ELSE hist.h,
                    last |-> [op |-> "merge", on |-> i, other |-> j,
                              before |-> hist.h, threw |-> ~ok],
                    calls |-> hist.calls + 1]
    /\ UNCHANGED notHistVars

NextHist ==
    \/ \E i \in {1, 2}, v \in HistValues : HistUpdate(i, v)
    \/ \E i \in {1, 2}, bin \in 0..MaxBins : HistUpdateNaN(i, bin)
    \/ \E i \in {1, 2}, j \in {1, 2} : HistMergeCall(i, j)

SpecHist == InitHist /\ [][NextHist]_vars

ConfigOf(h) == <<h.min_, h.max_, h.num_bins_>>

\* C17: a merge of two histograms throws exactly when min, max or the
\* number of bins differ, and a merge that throws leaves both histograms
\* as they were.
C17_MismatchedMergeThrows ==
    hist.last.op = "merge" =>
        LET a == hist.last.before[hist.last.on]
            b == hist.last.before[hist.last.other]
        IN  /\ hist.last.threw <=> ConfigOf(a) # ConfigOf(b)
            /\ hist.last.threw => hist.h = hist.last.before

C17_Witness ==
    /\ hist.last.op = "merge"
    /\ hist.last.threw
    /\ hist.last.on = 1
    /\ hist.h[1].total_ = 1
    /\ hist.h[2].total_ = 1
    /\ hist.h[1].num_bins_ = hist.h[2].num_bins_
    /\ hist.h[1].min_ = hist.h[2].min_

(***************************************************************************)
(* One welford_accumulator fed a stream of samples, queried for mean(),    *)
(* variance() and sample_variance().                                       *)
(***************************************************************************)
MaxSamples == 5    \* samples fed to the welford_accumulator

SampleValues == {FromInt(i) : i \in 1..5}

InitVariance ==
    /\ kind = "welford"
    /\ whole = WelfordNew
    /\ grp = <<WelfordNew, WelfordNew>>
    /\ fed = <<>>
    /\ out = NoOut
    /\ CondIdle /\ SwIdle /\ TwIdle /\ ThIdle /\ ExtIdle

\* acc += value
Sample(v) ==
    /\ Len(fed) < MaxSamples
    /\ whole' = WelfordAdd(whole, v)
    /\ fed' = Append(fed, <<v, 1>>)
    /\ UNCHANGED <<kind, grp, out>>
    /\ UNCHANGED notAlgVars

NextVariance == \E v \in SampleValues : Sample(v)

SpecVariance == InitVariance /\ [][NextVariance]_vars

RECURSIVE SumOfSeq(_)
SumOfSeq(vs) == IF vs = <<>> THEN Zero ELSE RAdd(Head(vs), SumOfSeq(Tail(vs)))

\* sum of squared deviations of vs from its arithmetic mean
SquaredDeviations(vs) ==
    LET m == RDiv(SumOfSeq(vs), FromInt(Len(vs)))
    IN  SumOfSeq([i \in 1..Len(vs) |-> RMul(RSub(vs[i], m), RSub(vs[i], m))])

MaxTerms == 4    \* values added to the sums

\* spacing of the doubles around hi * 10^16:
\* 2^53 < 10^16 < 2^54 < 2 * 10^16 < 2^55 < 4 * 10^16 < 2^56 < 8 * 10^16 < 2^57
Ulp(hi) ==
    LET a == Abs(hi)
    IN  IF a = 0 THEN 1 ELSE IF a = 1 THEN 2 ELSE IF a <= 3 THEN 4
        ELSE IF a <= 7 THEN 8 ELSE 16

\* round to nearest double, ties to even
RoundDouble(x) ==
    LET u == Ulp(x[1])
        q == x[2] \div u
        r == x[2] % u
    IN  IF 2 * r < u THEN <<x[1], q * u>>
        ELSE IF 2 * r > u THEN <<x[1], (q + 1) * u>>
        ELSE IF q % 2 = 0 THEN <<x[1], q * u>>
        ELSE <<x[1], (q + 1) * u>>

DAdd(x, y) == RoundDouble(<<x[1] + y[1], x[2] + y[2]>>)
DSub(x, y) == RoundDouble(<<x[1] - y[1], x[2] - y[2]>>)
DAbs(x)    == IF x[1] < 0 \/ (x[1] = 0 /\ x[2] < 0) THEN <<-x[1], -x[2]>> ELSE x
DGe(x, y)  == x[1] > y[1] \/ (x[1] = y[1] /\ x[2] >= y[2])
DZero      == <<0, 0>>

\* kbn_sum<double>::operator+=(const double&)
KbnAddDoubleUncompensated(s, value) ==
    [sum_ |-> DAdd(s.sum_, value), correction_ |-> DZero]

KbnAddDouble(s, value) ==
    LET corrected_next_term == DAdd(value, s.correction_)
        new_sum == DAdd(s.sum_, corrected_next_term)
    IN  [sum_ |-> new_sum,
         correction_ |->
            IF DGe(DAbs(s.sum_), DAbs(corrected_next_term))
            THEN DAdd(DSub(s.sum_, new_sum), corrected_next_term)
            ELSE DAdd(DSub(corrected_next_term, new_sum), s.sum_)]

\* kbn_sum<double>::eval()
KbnEvalDouble(s) == DAdd(s.sum_, s.correction_)

\* 1e16, 1.0, -1.0, -1e16
Terms == {<<1, 0>>, <<0, 1>>, <<0, -1>>, <<-1, 0>>}

InitFp ==
    /\ fp = [kbn |-> [sum_ |-> DZero, correction_ |-> DZero],
             naive |-> DZero, fed |-> <<>>]
    /\ mr = "none" /\ hm = "none" /\ ctor = "none" /\ hist = "none" /\ MoreIdle
    /\ OldIdle

\* sum += value, and the plain double sum beside it
FpAdd(value) ==
    /\ Len(fp.fed) < MaxTerms
    /\ fp' = [kbn |-> KbnAddDouble(fp.kbn, value),
              naive |-> DAdd(fp.naive, value),
              fed |-> Append(fp.fed, value)]
    /\ UNCHANGED notFpVars

NextFp == \E value \in Terms : FpAdd(value)

SpecFp == InitFp /\ [][NextFp]_vars

\* C19: after 1e16, 1.0, 1.0, -1e16 a kbn_sum<double> evaluates to 2.0
\* (sum_ + correction_), while the plain double sum of the same values is 0.0.
C19_CompensatedSumRecoversSmallTerms ==
    fp.fed = <<<<1, 0>>, <<0, 1>>, <<0, 1>>, <<-1, 0>>>> =>
        /\ KbnEvalDouble(fp.kbn) = <<0, 2>>
        /\ fp.naive = DZero

C19_Witness ==
    /\ fp.fed = <<<<1, 0>>, <<0, 1>>, <<0, 1>>, <<-1, 0>>>>
    /\ fp.kbn.sum_ = <<0, 2>>
    /\ fp.kbn.correction_ = DZero
    /\ fp.naive = DZero

(***************************************************************************)
(* variadic_parallel_composition: the algebra machine run on compositions  *)
(* of one, three and four children.                                        *)
(***************************************************************************)
VariadicKinds == {"variadic_1", "variadic_3", "variadic_4"}

VariadicChildren(kd) ==
    CASE kd = "variadic_1" -> <<KbnNew>>
      [] kd = "variadic_3" -> <<MinNew, MaxNew, CountNew>>
      [] kd = "variadic_4" -> <<KbnNew, WelfordNew, CountNew, ParallelComposition(MinNew, MaxNew)>>

InitVariadic ==
    /\ kind \in VariadicKinds
    /\ whole = VariadicComposition(VariadicChildren(kind))
    /\ grp = <<whole, whole>>
    /\ fed = <<>>
    /\ out = NoOut
    /\ CondIdle /\ SwIdle /\ TwIdle /\ ThIdle /\ ExtIdle

SpecVariadic == InitVariadic /\ [][NextAlg]_vars

\* child i fed the values vs on its own
ChildAlone(i, vs) == Fold(VariadicChildren(kind)[i], vs)

\* C20: a variadic composition of N children holds, after any stream, in
\* each child the state that child reaches alone on the same stream; eval()
\* is the N-tuple of the children's results in declaration order; a merge
\* merges child i with child i of the other composition.
C20_VariadicFansOut ==
    LET n == Len(VariadicChildren(kind))
    IN  /\ Len(whole.accumulators_) = n
        /\ \A i \in 1..n : whole.accumulators_[i] = ChildAlone(i, FedValues)
        /\ Eval(whole) = [i \in 1..n |-> Eval(ChildAlone(i, FedValues))]
        /\ out.done =>
              \A i \in 1..n :
                 grp[1].accumulators_[i] =
                    Merge(ChildAlone(i, GroupValues(1)), ChildAlone(i, GroupValues(2)))

C20_Witness ==
    /\ kind = "variadic_4"
    /\ out.done
    /\ FedValues = <<FromInt(3), FromInt(-1), FromInt(2)>>
    /\ GroupValues(2) = <<FromInt(-1)>>
    /\ Eval(whole) = <<FromInt(4), Norm(4, 3), FromInt(3), <<FromInt(-1), FromInt(3)>>>>
    /\ Eval(grp[1]) = Eval(whole)

(***************************************************************************)
(* Serialization (to_bytes / from_bytes).  A buffer is the sequence of the *)
(* objects written to it: the serialization_header first, then the fields  *)
(* of the accumulator.  write<T> and read<T> copy the bytes of a trivially *)
(* copyable T, so a field read back is the field written.                  *)
(***************************************************************************)
MaxSerFeed == 3      \* values added to the accumulator before it is serialized

SerKinds == {"kbn", "welford", "min", "max", "count"}
SerValues == {FromInt(-1), One, FromInt(3)}

MAGIC == "ACMX"
VERSION == 1

\* accumulator_type_id
TypeId(kd) ==
    CASE kd = "kbn" -> 1 [] kd = "welford" -> 3 [] kd = "min" -> 5
      [] kd = "max" -> 6 [] kd = "count" -> 7

SerializationHeader(kd, size) ==
    [magic |-> MAGIC, version |-> VERSION, type_id |-> TypeId(kd),
     data_size |-> size]

\* serialization_traits<Acc>::serialize
SerializeFields(acc) ==
    CASE acc.k = "kbn"     -> <<acc.sum_, acc.correction_>>
      [] acc.k = "welford" ->
            <<WelfordSize(acc), WelfordMean(acc), WelfordSumOfSquares(acc)>>
      [] acc.k = "min"     -> <<IF acc.has_value_ THEN 1 ELSE 0, MinEval(acc)>>
      [] acc.k = "max"     -> <<IF acc.has_value_ THEN 1 ELSE 0, MaxEval(acc)>>
      [] acc.k = "count"   -> <<acc.count_>>

\* size in bytes of the fields written (uint64_t and double 8, uint8_t 1)
DataSize(acc) ==
    CASE acc.k = "kbn" -> 16 [] acc.k = "welford" -> 24 [] acc.k = "min" -> 9
      [] acc.k = "max" -> 9 [] acc.k = "count" -> 8

\* serialize(acc), to_bytes(acc)
Serialize(acc) ==
    <<SerializationHeader(acc.k, DataSize(acc))>> \o SerializeFields(acc)

\* acc += mean, count times
RECURSIVE AddTimes(_, _, _)
AddTimes(acc, value, n) ==
    IF n = 0 THEN acc ELSE AddTimes(Update(acc, value), value, n - 1)

\* serialization_traits<welford_accumulator<double>>::deserialize
WelfordDeserialize(f) == AddTimes(WelfordNew, f[2], f[1])

\* serialization_traits<Acc>::deserialize
DeserializeFields(kd, f) ==
    CASE kd = "kbn"     -> KbnAdd(KbnAssign(f[1]), f[2])
      [] kd = "welford" -> WelfordDeserialize(f)
      [] kd = "min"     ->
            IF f[1] # 0
            THEN [k |-> "min", min_value_ |-> f[2], has_value_ |-> TRUE]
            ELSE MinNew
      [] kd = "max"     ->
            IF f[1] # 0
            THEN [k |-> "max", max_value_ |-> f[2], has_value_ |-> TRUE]
            ELSE MaxNew
      [] kd = "count"   -> [k |-> "count", count_ |-> f[1]]

\* deserialize<Acc>(buf), from_bytes<Acc>(bytes): throws on a bad header
Deserialize(kd, bytes) ==
    LET header == bytes[1]
    IN  IF ~(header.magic = MAGIC /\ header.version <= VERSION)
        THEN [threw |-> TRUE]
        ELSE IF header.type_id # TypeId(kd) THEN [threw |-> TRUE]
        ELSE [threw |-> FALSE, acc |-> DeserializeFields(kd, Tail(bytes))]

InitSer ==
    /\ \E kd \in SerKinds :
          ser = [acc |-> New(kd), fed |-> 0, pc |-> "feed", bytes |-> <<>>,
                 back |-> [threw |-> FALSE]]
    /\ OldIdle
    /\ mr = "none" /\ hm = "none" /\ ctor = "none" /\ hist = "none" /\ fp = "none"
    /\ sz = "none" /\ cm = "none" /\ hq = "none" /\ rd = NoRead

\* acc += value, before the accumulator is serialized
SerFeed(v) ==
    /\ ser.pc = "feed"
    /\ ser.fed < MaxSerFeed
    /\ ser' = [ser EXCEPT !.acc = Update(@, v), !.fed = @ + 1]
    /\ UNCHANGED notSerVars

\* bytes = to_bytes(acc)
ToBytes ==
    /\ ser.pc = "feed"
    /\ ser' = [ser EXCEPT !.bytes = Serialize(ser.acc), !.pc = "bytes"]
    /\ UNCHANGED notSerVars

\* back = from_bytes<Acc>(bytes)
FromBytes ==
    /\ ser.pc = "bytes"
    /\ ser' = [ser EXCEPT !.back = Deserialize(ser.acc.k, ser.bytes),
                          !.pc = "back"]
    /\ UNCHANGED notSerVars

NextSer ==
    \/ \E v \in SerValues : SerFeed(v)
    \/ ToBytes
    \/ FromBytes

SpecSer == InitSer /\ [][NextSer]_vars

\* the sufficient statistics and the query results of an accumulator
Statistics(acc) ==
    CASE acc.k = "kbn"     -> <<acc.sum_, acc.correction_, KbnEval(acc)>>
      [] acc.k = "welford" ->
            <<WelfordSize(acc), WelfordMean(acc), WelfordSumOfSquares(acc),
              WelfordVariance(acc)>>
      [] acc.k = "min"     -> <<acc.has_value_, MinEval(acc)>>
      [] acc.k = "max"     -> <<acc.has_value_, MaxEval(acc)>>
      [] acc.k = "count"   -> <<acc.count_>>

\* C21: from_bytes(to_bytes(r)) has the sufficient statistics and the query
\* results of r: sum and correction for kbn_sum; count, mean, M2 and variance
\* for welford_accumulator; value and emptiness for min and max; the count
\* for count_accumulator.
C21_RoundTripRestoresStatistics ==
    ser.pc = "back" =>
        /\ ~ser.back.threw
        /\ Statistics(ser.back.acc) = Statistics(ser.acc)

(***************************************************************************)
(* Merge of two quiescent sharded wrappers: the writers update either      *)
(* wrapper, each in the shard of its thread; after they have finished the  *)
(* main thread runs a += b and then reads a or b.                          *)
(***************************************************************************)
ShardMergeProgs ==
    {<<MergeCall(1, 2), EvalCall(a)>> : a \in {1, 2}}

InitShardMerge ==
    /\ wrap = "sharded"
    /\ \E acc \in {KbnNew, CountNew} : inst \in Wrappers({1, 2}, acc)
    /\ lock = [m \in Mutexes |-> Unlocked]
    /\ hash \in {h \in [Writers \cup {MainThread} -> 0..(MaxShards - 1)] :
                    h[MainThread] = 0}
    /\ \E on \in [Writers -> {1, 2}], p \in ShardMergeProgs :
          th = [t \in Writers \cup {MainThread} |->
                  IF t = MainThread
                  THEN NewThread(p, Writers)
                  ELSE NewThread(<<UpdateCall(on[t], FromInt(t))>>, {})]
    /\ AlgIdle /\ CondIdle /\ SwIdle /\ TwIdle /\ ExtIdle

SpecShardMerge == InitShardMerge /\ [][NextMergers]_vars

\* the result of wrapper a before the merge: the writers' updates to it,
\* folded into one accumulator
RECURSIVE UpdatesTo(_, _)
UpdatesTo(a, n) ==
    IF n = 0 THEN <<>>
    ELSE UpdatesTo(a, n - 1) \o
         (IF th[n].script[1].on = a THEN <<th[n].script[1].v>> ELSE <<>>)

ResultBefore(a) == Fold(Identity(inst[a][1]), UpdatesTo(a, NumWriters))

\* C22: after a += b on two quiescent sharded wrappers around kbn_sum or
\* count_accumulator, a.eval() is the previous a.eval() combined with
\* b.eval(), and b.eval() is what it was, for every pair of shard counts.
C22_ShardedMergeTakesEveryShard ==
    th[MainThread].prog = <<>> =>
        th[MainThread].ret =
            IF th[MainThread].script[2].on = 1
            THEN Eval(Merge(ResultBefore(1), ResultBefore(2)))
            ELSE Eval(ResultBefore(2))

(***************************************************************************)
(* Merge of a sharded wrapper with any argument: thread 1 runs a += x,     *)
(* where x is a itself or another wrapper, while thread 2 issues updates   *)
(* and evals on either wrapper.                                            *)
(***************************************************************************)
SelfMergeThreads == {1, 2}

InitSelfMerge ==
    /\ wrap = "sharded"
    /\ inst \in Wrappers({1, 2}, CountNew)
    /\ lock = [m \in Mutexes |-> Unlocked]
    /\ hash \in {h \in [SelfMergeThreads -> 0..(MaxShards - 1)] : h[1] = 0}
    /\ \E x \in {1, 2}, p \in BystanderProgs :
          th = [t \in SelfMergeThreads |->
                  IF t = 1 THEN NewThread(<<MergeCall(1, x)>>, {})
                  ELSE NewThread(p, {})]
    /\ AlgIdle /\ CondIdle /\ SwIdle /\ TwIdle /\ ExtIdle

NextSelfMerge ==
    \/ \E t \in DOMAIN th : LockStep(t)
    \/ \E t \in DOMAIN th : LockOwnedMutex(t)
    \/ \E t \in DOMAIN th : UpdRead(t)
    \/ \E t \in DOMAIN th : UpdWrite(t)
    \/ \E t \in DOMAIN th : MergeApply(t)
    \/ \E t \in DOMAIN th : EvalRead(t)

SpecSelfMerge == InitSelfMerge /\ [][NextSelfMerge]_vars

\* the scheduler runs every runnable thread, so every lock held is released
\* in the end; nothing obliges a lock on an owned mutex to be granted
FairSelfMerge ==
    SpecSelfMerge /\ \A t \in SelfMergeThreads : WF_vars(ThreadStep(t))

\* C23: a merge call on a sharded wrapper returns in the end, whatever its
\* argument, the wrapper itself included, when the other threads release
\* the shard locks they hold.
C23_ShardedMergeReturns == <>(th[1].prog = <<>>)

(***************************************************************************)
(* hierarchical_merge::parallel_merge.  The std::async tasks of one level  *)
(* work on moved copies of disjoint pairs, and their results are collected *)
(* in launch order, so one level is one step.                              *)
(***************************************************************************)
PmKinds == HmKinds \cup {"reservoir"}

PmPartials(kd) ==
    IF kd = "reservoir"
    THEN {ReservoirNew(DefaultMaxSize)}
            \cup {ReservoirAdd(ReservoirNew(DefaultMaxSize), v, <<>>, 1) : v \in MrValues}
    ELSE Partials(kd)

\* one pass of the while loop of parallel_merge: the odd last element is
\* pushed first, then the merged pairs in order
ParallelNextLevel(accumulators) ==
    LET n == Len(accumulators)
        futures == [j \in 1..(n \div 2) |->
                       Merge(accumulators[2 * j - 1], accumulators[2 * j])]
    IN  (IF n % 2 = 1 THEN <<accumulators[n]>> ELSE <<>>) \o futures

InitPm ==
    /\ \E kd \in PmKinds :
       \E input \in UNION {[1..n -> PmPartials(kd)] : n \in 0..MaxPartials} :
          hm = [kind |-> kd, input |-> input, accumulators |-> input,
                pc |-> "start", levels |-> 0, result |-> New(kd)]
    /\ mr = "none" /\ ctor = "none" /\ hist = "none" /\ fp = "none" /\ MoreIdle
    /\ OldIdle

\* one iteration of while (accumulators.size() > 1) of parallel_merge
PmLevel ==
    /\ hm.pc = "start"
    /\ Len(hm.accumulators) > 1
    /\ hm' = [hm EXCEPT !.accumulators = ParallelNextLevel(@), !.levels = @ + 1]
    /\ UNCHANGED notHmVars

NextPm == HmEmpty \/ PmLevel \/ HmReturn

SpecPm == InitPm /\ [][NextPm]_vars

\* hierarchical_merge::merge on the same vector
RECURSIVE HierarchicalMerge(_, _)
HierarchicalMerge(kd, accumulators) ==
    IF Len(accumulators) = 0 THEN New(kd)
    ELSE IF Len(accumulators) = 1 THEN accumulators[1]
    ELSE HierarchicalMerge(kd, NextLevel(accumulators))

\* C24: parallel_merge returns the accumulator that merge returns on the
\* same vector, for every length: the partials are merged in their order in
\* the vector, so the result is the left-to-right chain merge.
C24_ParallelMergeKeepsOrder ==
    hm.pc = "done" =>
        /\ hm.result = HierarchicalMerge(hm.kind, hm.input)
        /\ Len(hm.input) >= 1 =>
              hm.result = LinearChain(Head(hm.input), Tail(hm.input))

(***************************************************************************)
(* p2_quantile_accumulator<T> (markers q_[0..4] are q_[1..5] here) and     *)
(* covariance_accumulator<T>.                                              *)
(***************************************************************************)
P2New(p) ==
    [k |-> "p2", p_ |-> p, q_ |-> [i \in 1..5 |-> Zero],
     n_ |-> <<0, 1, 2, 3, 4>>,
     n_prime_ |-> <<Zero, RMul(FromInt(2), p), RMul(FromInt(4), p),
                    RAdd(FromInt(2), RMul(FromInt(2), p)), FromInt(4)>>,
     dn_ |-> <<Zero, RDiv(p, FromInt(2)), p, RDiv(RAdd(One, p), FromInt(2)), One>>,
     count_ |-> 0]

P2Parabolic(s, i, d) ==
    LET qi == s.q_[i]  qim1 == s.q_[i - 1]  qip1 == s.q_[i + 1]
        ni == s.n_[i]  nim1 == s.n_[i - 1]  nip1 == s.n_[i + 1]
        num == RMul(RDiv(FromInt(d), FromInt(nip1 - nim1)),
                    RAdd(RDiv(RMul(FromInt(ni - nim1 + d), RSub(qip1, qi)),
                              FromInt(nip1 - ni)),
                         RDiv(RMul(FromInt(nip1 - ni - d), RSub(qi, qim1)),
                              FromInt(ni - nim1))))
    IN  RAdd(qi, num)

P2Linear(s, i, d) ==
    RAdd(s.q_[i], RDiv(RMul(FromInt(d), RSub(s.q_[i + d], s.q_[i])),
                       FromInt(s.n_[i + d] - s.n_[i])))

\* the body of for (int i = 1; i < 4; ++i), for marker i
P2Adjust(s, i) ==
    LET d == RSub(s.n_prime_[i], FromInt(s.n_[i]))
    IN  IF \/ RGe(d, One) /\ s.n_[i + 1] - s.n_[i] > 1
           \/ RGe(FromInt(-1), d) /\ s.n_[i - 1] - s.n_[i] < -1
        THEN LET di == IF RGe(d, Zero) THEN 1 ELSE -1
                 parabolic == P2Parabolic(s, i, di)
                 q_new == IF RGe(s.q_[i - 1], parabolic) \/ RGe(parabolic, s.q_[i + 1])
                          THEN P2Linear(s, i, di) ELSE parabolic
             IN  [s EXCEPT !.q_[i] = q_new, !.n_[i] = @ + di]
        ELSE s

\* operator+=(const T&)
P2Add(s, x) ==
    IF s.count_ + 1 <= 5
    THEN LET q == [s.q_ EXCEPT ![s.count_ + 1] = x]
         IN  [s EXCEPT !.count_ = @ + 1,
                       !.q_ = IF s.count_ + 1 = 5 THEN Sort(q) ELSE q]
    ELSE LET branch == IF RLt(x, s.q_[1]) THEN 1
                       ELSE IF RLt(x, s.q_[2]) THEN 2
                       ELSE IF RLt(x, s.q_[3]) THEN 3
                       ELSE IF RLt(x, s.q_[4]) THEN 4
                       ELSE IF RLt(x, s.q_[5]) THEN 5
                       ELSE 6
             cell == <<0, 0, 1, 2, 3, 3>>[branch]
             moved == [s EXCEPT
                         !.count_ = @ + 1,
                         !.q_ = IF branch = 1 THEN [@ EXCEPT ![1] = x]
                                ELSE IF branch = 6 THEN [@ EXCEPT ![5] = x]
                                ELSE @,
                         !.n_ = [i \in 1..5 |-> IF i - 1 > cell THEN @[i] + 1 ELSE @[i]],
                         !.n_prime_ = [i \in 1..5 |-> RAdd(@[i], s.dn_[i])]]
         IN  P2Adjust(P2Adjust(P2Adjust(moved, 2), 3), 4)

\* *this += other.q_[i] for i < other.count_ && i < 5, from marker i on
RECURSIVE P2AddMarkers(_, _, _)
P2AddMarkers(s, other, i) ==
    IF i > other.count_ \/ i > 5 THEN s
    ELSE P2AddMarkers(P2Add(s, other.q_[i]), other, i + 1)

\* operator+=(const p2_quantile_accumulator&)
P2Merge(s, other) ==
    IF other.count_ = 0 THEN s
    ELSE IF s.count_ < 5 THEN P2AddMarkers(s, other, 1)
    ELSE LET w1 == RDiv(FromInt(s.count_), FromInt(s.count_ + other.count_))
             w2 == RSub(One, w1)
         IN  [s EXCEPT !.q_ = [i \in 1..5 |->
                                  RAdd(RMul(w1, s.q_[i]), RMul(w2, other.q_[i]))],
                       !.count_ = @ + other.count_]

CovarianceNew ==
    [k |-> "covariance", count_ |-> 0, mean_x_ |-> KbnNew, mean_y_ |-> KbnNew,
     m2_x_ |-> KbnNew, m2_y_ |-> KbnNew, c_xy_ |-> KbnNew]

\* operator+=(const std::pair<T, T>&)
CovarianceAdd(c, x, y) ==
    LET n  == FromInt(c.count_ + 1)
        dx == RSub(x, KbnEval(c.mean_x_))
        dy == RSub(y, KbnEval(c.mean_y_))
        mx == KbnAdd(c.mean_x_, RDiv(dx, n))
        my == KbnAdd(c.mean_y_, RDiv(dy, n))
        dx2 == RSub(x, KbnEval(mx))
        dy2 == RSub(y, KbnEval(my))
    IN  [c EXCEPT !.count_ = @ + 1, !.mean_x_ = mx, !.mean_y_ = my,
                  !.m2_x_ = KbnAdd(@, RMul(dx, dx2)),
                  !.m2_y_ = KbnAdd(@, RMul(dy, dy2)),
                  !.c_xy_ = KbnAdd(@, RMul(dx, dy2))]

\* operator+=(const covariance_accumulator&)
CovarianceMerge(c, other) ==
    IF other.count_ = 0 THEN c
    ELSE IF c.count_ = 0 THEN other
    ELSE LET n1 == FromInt(c.count_)
             n2 == FromInt(other.count_)
             n  == RAdd(n1, n2)
             dx == RSub(KbnEval(other.mean_x_), KbnEval(c.mean_x_))
             dy == RSub(KbnEval(other.mean_y_), KbnEval(c.mean_y_))
             cross(u, v) == RDiv(RMul(RMul(RMul(u, v), n1), n2), n)
         IN  [c EXCEPT
                !.mean_x_ = KbnAssign(RDiv(RAdd(RMul(n1, KbnEval(c.mean_x_)),
                                                RMul(n2, KbnEval(other.mean_x_))), n)),
                !.mean_y_ = KbnAssign(RDiv(RAdd(RMul(n1, KbnEval(c.mean_y_)),
                                                RMul(n2, KbnEval(other.mean_y_))), n)),
                !.m2_x_ = KbnMerge(@, KbnAdd(other.m2_x_, cross(dx, dx))),
                !.m2_y_ = KbnMerge(@, KbnAdd(other.m2_y_, cross(dy, dy))),
                !.c_xy_ = KbnMerge(@, KbnAdd(other.c_xy_, cross(dx, dy))),
                !.count_ = @ + other.count_]

(***************************************************************************)
(* Sizes: two accumulators of one type are fed values; then a += b.        *)
(***************************************************************************)
MaxSzOps == 7        \* values added to the two accumulators together
SmallReservoir == 2  \* max_size of the reservoirs constructed

SzKinds == {"welford", "covariance", "histogram", "p2", "reservoir"}
SzValues == {One, FromInt(3)}
SzDraws == {0, 2}

SzNew(kd) ==
    CASE kd = "welford"    -> WelfordNew
      [] kd = "covariance" -> CovarianceNew
      [] kd = "histogram"  -> HistogramNew(Zero, FromInt(2), 2)
      [] kd = "p2"         -> P2New(Norm(1, 2))
      [] kd = "reservoir"  -> ReservoirNew(SmallReservoir)

\* acc += value (covariance: the pair (value, value + 1))
SzAdd(acc, value, draw) ==
    CASE acc.k = "welford"    -> WelfordAdd(acc, value)
      [] acc.k = "covariance" -> CovarianceAdd(acc, value, RAdd(value, One))
      [] acc.k = "histogram"  -> HistogramAdd(acc, value)
      [] acc.k = "p2"         -> P2Add(acc, value)
      [] acc.k = "reservoir"  -> ReservoirAdd(acc, value, <<draw>>, 1)

\* acc += other
SzMergeOp(acc, other, draws) ==
    CASE acc.k = "welford"    -> WelfordMerge(acc, other)
      [] acc.k = "covariance" -> CovarianceMerge(acc, other)
      [] acc.k = "histogram"  -> HistogramMerge(acc, other)
      [] acc.k = "p2"         -> P2Merge(acc, other)
      [] acc.k = "reservoir"  -> ReservoirMerge(acc, other, draws)

\* size()
Size(acc) == IF acc.k = "histogram" THEN acc.total_ ELSE acc.count_

InitSz ==
    /\ \E kd \in SzKinds :
          sz = [acc |-> <<SzNew(kd), SzNew(kd)>>, fed |-> 0, merged |-> FALSE,
                before |-> <<0, 0>>]
    /\ OldIdle
    /\ mr = "none" /\ hm = "none" /\ ctor = "none" /\ hist = "none" /\ fp = "none"
    /\ ser = "none" /\ cm = "none" /\ hq = "none" /\ rd = NoRead

\* acc[i] += v
SzUpdate(i, v, draw) ==
    /\ ~sz.merged
    /\ sz.fed < MaxSzOps
    /\ sz.acc[1].k # "reservoir" => draw = 0
    /\ sz' = [sz EXCEPT !.acc[i] = SzAdd(@, v, draw), !.fed = @ + 1]
    /\ UNCHANGED notSzVars

\* acc[1] += acc[2]
SzMerge(draws) ==
    /\ ~sz.merged
    /\ sz.acc[1].k # "reservoir" => \A i \in DOMAIN draws : draws[i] = 0
    /\ sz' = [sz EXCEPT !.acc[1] = SzMergeOp(@, sz.acc[2], draws),
                        !.merged = TRUE,
                        !.before = <<Size(sz.acc[1]), Size(sz.acc[2])>>]
    /\ UNCHANGED notSzVars

NextSz ==
    \/ \E i \in {1, 2}, v \in SzValues, draw \in SzDraws : SzUpdate(i, v, draw)
    \/ \E draws \in [1..SmallReservoir -> SzDraws] : SzMerge(draws)

SpecSz == InitSz /\ [][NextSz]_vars

\* C25: after a += b, a.size() is the previous a.size() plus b.size(), for
\* welford_accumulator, covariance_accumulator, histogram_accumulator,
\* p2_quantile_accumulator and reservoir_quantile_accumulator.
C25_MergeAddsSizes ==
    sz.merged =>
        /\ Size(sz.acc[1]) = sz.before[1] + sz.before[2]
        /\ Size(sz.acc[2]) = sz.before[2]

(***************************************************************************)
(* Reads of a sliding window: update, merge (with the other window and     *)
(* with itself), clear, eval() and accumulator() in any order.             *)
(***************************************************************************)
\* clear()
SlidingClear(w) == [w EXCEPT !.values_ = <<>>, !.cache_valid_ = FALSE]

\* what a read leaves in the object: the cache is rebuilt if it is not valid
SlidingRead(w) == IF w.cache_valid_ THEN w ELSE SlidingRebuildCache(w)

\* w += w: the range-for walks values_ while operator+= pushes to and pops
\* from it (undefined behaviour).  Every outcome runs operator+= at least
\* once when the window is not empty; what values_ holds after it is open.
SelfMergeOutcomes(w) ==
    IF w.values_ = <<>> THEN {w}
    ELSE {[w EXCEPT !.values_ = vs, !.cache_valid_ = FALSE] :
            vs \in UNION {[1..n -> {w.values_[k] : k \in DOMAIN w.values_}] :
                            n \in 1..w.window_size_}}

InitSwRead ==
    /\ sw \in [{1, 2} -> {SlidingNew(n) : n \in 1..MaxWindow}]
    /\ swPushed = [i \in {1, 2} |-> <<>>]
    /\ swOps = 0
    /\ AlgIdle /\ CondIdle /\ TwIdle /\ ThIdle /\ ExtIdle

\* window.clear()
SwClear(i) ==
    /\ swOps < MaxSwOps
    /\ sw' = [sw EXCEPT ![i] = SlidingClear(@)]
    /\ swPushed' = [swPushed EXCEPT ![i] = <<>>]
    /\ swOps' = swOps + 1
    /\ UNCHANGED notSwVars

\* window += window
SwSelfMerge(i) ==
    /\ swOps < MaxSwOps
    /\ \E w \in SelfMergeOutcomes(sw[i]) :
          /\ sw' = [sw EXCEPT ![i] = w]
          /\ swPushed' = [swPushed EXCEPT ![i] = w.values_]
    /\ swOps' = swOps + 1
    /\ UNCHANGED notSwVars

\* window.eval() and window.accumulator()
SwRead(i, what) ==
    /\ swOps < MaxSwOps
    /\ sw' = [sw EXCEPT ![i] = SlidingRead(@)]
    /\ rd' = [op |-> what, on |-> i, reads |-> rd.reads + 1,
              retained |-> sw[i].values_,
              rebuilt |-> ~sw[i].cache_valid_,
              result |-> IF what = "eval"
                         THEN Eval(SlidingRead(sw[i]).cached_acc_)
                         ELSE SlidingRead(sw[i]).cached_acc_]
    /\ swOps' = swOps + 1
    /\ UNCHANGED swPushed
    /\ UNCHANGED notRdVars

NextSwRead ==
    \/ \E i \in {1, 2}, v \in SwValues : SwUpdate(i, v)
    \/ \E i, j \in {1, 2} : SwMerge(i, j)
    \/ \E i \in {1, 2} : SwSelfMerge(i)
    \/ \E i \in {1, 2} : SwClear(i)
    \/ \E i \in {1, 2}, what \in {"eval", "accumulator"} : SwRead(i, what)

SpecSwRead == InitSwRead /\ [][NextSwRead]_vars

\* C26: every eval() and accumulator() of a sliding window returns the
\* fold, from the identity, of the values the window retains at that
\* moment, after any sequence of updates, merges, clears and reads; a valid
\* cache is never stale.
C26_ReadsAreNeverStale ==
    /\ \A i \in {1, 2} :
          sw[i].cache_valid_ => sw[i].cached_acc_ = Fold(KbnNew, sw[i].values_)
    /\ rd.op = "eval" => rd.result = Eval(Fold(KbnNew, rd.retained))
    /\ rd.op = "accumulator" => rd.result = Fold(KbnNew, rd.retained)

\* one window read twice, with an update after the first read: the second
\* read rebuilds the cache the first one built
C26_Witness ==
    /\ rd.op = "eval"
    /\ rd.reads = 2
    /\ rd.rebuilt
    /\ swPushed[rd.on] = <<One, FromInt(2)>>
    /\ rd.retained = <<One, FromInt(2)>>
    /\ rd.result = FromInt(3)
    /\ swOps = MaxSwOps
    /\ swPushed[3 - rd.on] = <<>>
    /\ ~sw[3 - rd.on].cache_valid_

\* underflow_ + overflow_ + the sum of counts_
Counted(h) == h.underflow_ + h.overflow_ + SumOver(h.counts_, DOMAIN h.counts_)

\* C27: an update of a histogram increments total_ and exactly one of
\* underflow_ (value < min_), overflow_ (value >= max_) and one bin whose
\* index is below num_bins_; after any updates and merges total_ is
\* underflow_ + overflow_ + the sum of the bin counts.
C27_HistogramCountsEveryValueOnce ==
    /\ \A i \in {1, 2} :
          /\ hist.h[i].total_ = Counted(hist.h[i])
          /\ Len(hist.h[i].counts_) = hist.h[i].num_bins_
    /\ hist.last.op \in {"update", "update_nan"} =>
          LET a == hist.last.before[hist.last.on]
              b == hist.h[hist.last.on]
              one == [a EXCEPT !.total_ = @ + 1]
          IN  IF hist.last.op = "update" /\ RLt(hist.last.value, a.min_)
              THEN b = [one EXCEPT !.underflow_ = @ + 1]
              ELSE IF hist.last.op = "update" /\ RGe(hist.last.value, a.max_)
              THEN b = [one EXCEPT !.overflow_ = @ + 1]
              ELSE \E bin \in 1..a.num_bins_ :
                      b = [one EXCEPT !.counts_[bin] = @ + 1]

\* an underflow and an in-range value in one histogram, an overflow in the
\* other, then the merge of the two
C27_Witness ==
    /\ hist.last.op = "merge"
    /\ ~hist.last.threw
    /\ hist.last.on # hist.last.other
    /\ hist.h[hist.last.on].underflow_ = 1
    /\ hist.h[hist.last.on].overflow_ = 1
    /\ hist.h[hist.last.on].total_ = 2
    /\ hist.h[hist.last.other].total_ = 1

(***************************************************************************)
(* conditional_composition::operator+=(const conditional_composition&):    *)
(* two compositions of the same type, fed and merged in any order.  run    *)
(* is the sequence of values that reached the active accumulator of each.  *)
(***************************************************************************)
MaxCmOps == 4      \* updates and merges of the two compositions

CmValues == {One, FromInt(2), FromInt(4)}

\* AccumA and AccumB of the two compositions
CmTypes == {<<MinNew, MaxNew>>, <<KbnNew, WelfordNew>>}

\* a merge that replaces the receiver's variant when the alternatives differ
CondMergeAdopt(c, other) ==
    IF c.index = other.index
    THEN [c EXCEPT !.active_accumulator_ =
                        Merge(@, other.active_accumulator_)]
    ELSE [c EXCEPT !.index = other.index,
                   !.active_accumulator_ = other.active_accumulator_]

\* the nested std::visit: this_acc += other_acc only under
\* if constexpr (std::is_same_v<ThisType, OtherType>)
CondMerge(c, other) ==
    IF c.index = other.index
    THEN [c EXCEPT !.active_accumulator_ =
                        Merge(@, other.active_accumulator_)]
    ELSE c

InitCm ==
    /\ \E t \in CmTypes :
          cm = [c    |-> [i \in {1, 2} |-> Conditional(t[1], t[2])],
                run  |-> [i \in {1, 2} |-> <<>>],
                last |-> [op |-> "new", on |-> 1, other |-> 1,
                          before |-> [i \in {1, 2} |-> Conditional(t[1], t[2])],
                          threw |-> FALSE],
                ops  |-> 0]
    /\ AlgIdle /\ CondIdle /\ SwIdle /\ TwIdle /\ ThIdle
    /\ mr = "none" /\ hm = "none" /\ ctor = "none" /\ hist = "none" /\ fp = "none"
    /\ ser = "none" /\ sz = "none" /\ hq = "none" /\ rd = NoRead

\* c[i] += value
CmFeed(i, value) ==
    /\ cm.ops < MaxCmOps
    /\ LET switch == cm.c[i].index # (IF Predicate(value) THEN 0 ELSE 1)
       IN  cm' = [c    |-> [cm.c EXCEPT ![i] = CondAdd(@, value)],
                  run  |-> [cm.run EXCEPT ![i] =
                               IF switch THEN <<value>> ELSE Append(@, value)],
                  last |-> [op |-> "update", on |-> i, other |-> i,
                            before |-> cm.c, threw |-> FALSE],
                  ops  |-> cm.ops + 1]
    /\ UNCHANGED notCmVars

\* c[i] += c[j]; i = j is the merge of a composition with itself
CmMerge(i, j) ==
    /\ cm.ops < MaxCmOps
    /\ cm' = [c    |-> [cm.c EXCEPT ![i] = CondMerge(@, cm.c[j])],
              run  |-> [cm.run EXCEPT ![i] =
                           IF cm.c[i].index = cm.c[j].index
                           THEN @ \o cm.run[j] ELSE @],
              last |-> [op |-> "merge", on |-> i, other |-> j,
                        before |-> cm.c, threw |-> FALSE],
              ops  |-> cm.ops + 1]
    /\ UNCHANGED notCmVars

NextCm ==
    \/ \E i \in {1, 2}, v \in CmValues : CmFeed(i, v)
    \/ \E i, j \in {1, 2} : CmMerge(i, j)

SpecCm == InitCm /\ [][NextCm]_vars

\* the alternative of composition c, default constructed
CmBranch(c) == IF c.index = 0 THEN c.a0 ELSE c.b0

\* C28: a merge of two conditional compositions with the same active
\* alternative merges the active accumulators (the receiver then holds what
\* the values of both would have given); with different alternatives the
\* receiver's alternative and its state stay as they were; the argument is
\* unchanged and nothing is thrown.
C28_CondMergeOnlySameBranch ==
    /\ \A i \in {1, 2} :
          /\ cm.c[i].active_accumulator_.k = CmBranch(cm.c[i]).k
          /\ CondEval(cm.c[i]) = Eval(Fold(CmBranch(cm.c[i]), cm.run[i]))
    /\ cm.last.op = "merge" =>
          LET a == cm.last.before[cm.last.on]
              b == cm.last.before[cm.last.other]
          IN  /\ ~cm.last.threw
              /\ cm.c[cm.last.on].index = a.index
              /\ a.index # b.index => cm.c[cm.last.on] = a
              /\ a.index = b.index =>
                    cm.c[cm.last.on].active_accumulator_ =
                        Merge(a.active_accumulator_, b.active_accumulator_)
              /\ cm.last.on # cm.last.other => cm.c[cm.last.other] = b

\* a merge of a composition whose active alternative is AccumA with one whose
\* active alternative is AccumB, each of them fed before
C28_Witness ==
    /\ cm.last.op = "merge"
    /\ cm.last.on # cm.last.other
    /\ cm.last.before[cm.last.on].index = 0
    /\ cm.last.before[cm.last.other].index = 1
    /\ cm.run[cm.last.on] # <<>>
    /\ cm.run[cm.last.other] # <<>>
    /\ cm.c[cm.last.on].a0 = KbnNew

(***************************************************************************)
(* histogram_accumulator::quantile(double p), read from the histograms of  *)
(* the machine above.  target and cumsum are std::size_t, so               *)
(* target - cumsum wraps to 2^64 - (cumsum - target) when cumsum is the    *)
(* larger, and static_cast<double> rounds that to 2^64 (cumsum - target is *)
(* far below 1024).  A result is therefore w * 2^64 + r: w is the          *)
(* coefficient of 2^64 and r the rest, which the addition in double        *)
(* rounds away when w is not zero.                                         *)
(***************************************************************************)
QuantileTargets == {Zero, Norm(1, 2), One}     \* the p of quantile(p)

Exactly(x) == [w |-> Zero, r |-> x]

\* min_ + static_cast<T>(bin) * bin_width_
BinLeft(h, bin) == RAdd(h.min_, RMul(FromInt(bin), h.bin_width_))

RECURSIVE QuantileLoop(_, _, _, _)
\* for (i = 0; i < num_bins_; ++i) { ... } return max_;
QuantileLoop(h, target, cumsum, i) ==
    IF i = h.num_bins_
    THEN Exactly(h.max_)
    ELSE IF cumsum + h.counts_[i + 1] >= target
    THEN IF h.counts_[i + 1] = 0
         THEN Exactly(BinLeft(h, i))
         ELSE IF target >= cumsum
         THEN Exactly(RAdd(BinLeft(h, i),
                           RMul(RDiv(FromInt(target - cumsum),
                                     FromInt(h.counts_[i + 1])),
                                h.bin_width_)))
         ELSE [w |-> RDiv(h.bin_width_, FromInt(h.counts_[i + 1])),
               r |-> Zero]
    ELSE QuantileLoop(h, target, cumsum + h.counts_[i + 1], i + 1)

HistogramQuantile(h, p) ==
    IF h.total_ = 0 \/ RLt(p, Zero) \/ RLt(One, p)
    THEN Exactly(h.min_)
    ELSE QuantileLoop(h, Floor(RMul(p, FromInt(h.total_))), h.underflow_, 0)

InitHq ==
    /\ \E c1 \in HistConfigs, c2 \in HistConfigs :
          hist = [h |-> <<HistogramNew(c1[1], c1[2], c1[3]),
                          HistogramNew(c2[1], c2[2], c2[3])>>,
                  last |-> [op |-> "none"],
                  calls |-> 0]
    /\ hq = [op |-> "none"]
    /\ mr = "none" /\ hm = "none" /\ ctor = "none" /\ fp = "none"
    /\ ser = "none" /\ sz = "none" /\ cm = "none" /\ rd = NoRead
    /\ OldIdle

\* h[i].quantile(p)
HqQuantile(i, p) ==
    /\ hq' = [op |-> "quantile", of |-> hist.h[i], p |-> p,
              result |-> HistogramQuantile(hist.h[i], p)]
    /\ UNCHANGED notHqVars

NextHq ==
    \/ NextHist
    \/ \E i \in {1, 2}, p \in QuantileTargets : HqQuantile(i, p)

SpecHq == InitHq /\ [][NextHq]_vars

\* C29: quantile(p) of a histogram that holds at least one observation, for
\* p in [0, 1], lies between min_ and max_, whatever fell below min_ or at
\* or above max_.
C29_QuantileWithinBounds ==
    (hq.op = "quantile" /\ hq.of.total_ > 0) =>
        /\ hq.result.w = Zero
        /\ RGe(hq.result.r, hq.of.min_)
        /\ RGe(hq.of.max_, hq.result.r)

(***************************************************************************)
(* One thread using two mutex_accumulator or two rw_accumulator objects:   *)
(* a sequence of update, merge, reset and eval calls, and the same         *)
(* sequence applied to two bare accumulators.                              *)
(***************************************************************************)
SingleCalls == 3     \* calls the thread makes

SingleOps ==
    {UpdateCall(a, One) : a \in {1, 2}}
        \cup {MergeCall(a, b) : a \in {1, 2}, b \in {1, 2}}
        \cup {ResetCall(a) : a \in {1, 2}}
        \cup {EvalCall(a) : a \in {1, 2}}

InitSingle ==
    /\ wrap \in {"mutex", "rw"}
    /\ \E acc \in {KbnNew, MinNew} : inst \in Wrappers({1, 2}, acc)
    /\ lock = [m \in Mutexes |-> Unlocked]
    /\ hash = [t \in {1} |-> 0]
    /\ \E p \in [1..SingleCalls -> SingleOps] : th = [t \in {1} |-> NewThread(p, {})]
    /\ AlgIdle /\ CondIdle /\ SwIdle /\ TwIdle /\ ExtIdle

NextSingle ==
    \/ \E t \in DOMAIN th : LockStep(t)
    \/ \E t \in DOMAIN th : MergeSelfReturn(t)
    \/ \E t \in DOMAIN th : UpdRead(t)
    \/ \E t \in DOMAIN th : UpdWrite(t)
    \/ \E t \in DOMAIN th : MergeApply(t)
    \/ \E t \in DOMAIN th : ResetApply(t)
    \/ \E t \in DOMAIN th : EvalRead(t)

SpecSingle == InitSingle /\ [][NextSingle]_vars

\* one call applied to the bare accumulators: acc += value, acc += other,
\* acc = Acc{}, acc.eval()
BareCall(bare, o) ==
    CASE o.op = "update" -> [bare EXCEPT ![o.on] = Update(@, o.v)]
      [] o.op = "merge"  -> [bare EXCEPT ![o.on] = Merge(@, bare[o.other])]
      [] o.op = "reset"  -> [bare EXCEPT ![o.on] = Identity(@)]
      [] OTHER           -> bare

RECURSIVE BareRun(_, _, _)
\* the bare accumulators after the first n calls of script
BareRun(start, script, n) ==
    IF n = 0 THEN start
    ELSE BareCall(BareRun(start, script, n - 1), script[n])

\* C30: in a single thread, every eval() of a mutex_accumulator or
\* rw_accumulator returns what eval() of the bare accumulator returns after
\* the same sequence of update, merge (of an object with itself included),
\* reset and eval calls.
C30_SingleThreadMatchesBare ==
    LET n == th[1].returned
        start == [a \in {1, 2} |-> Identity(inst[a][1])]
    IN  (n > 0 /\ th[1].script[n].op = "eval") =>
            th[1].ret = Eval(BareRun(start, th[1].script, n - 1)[th[1].script[n].on])

====
